---- MODULE Spec2Model ----
(***************************************************************************)
(* Pull-based operator pipeline of mini_rust_olap (src/src/execution.rs):  *)
(* TableScan, Filter, Project, GroupBy, Sort and Limit, driven by a caller *)
(* that issues open / next_batch / close on the root of an operator chain. *)
(*                                                                         *)
(* An operator chain is a sequence `ops`: ops[1] is the TableScan leaf and *)
(* ops[i-1] is the boxed child of ops[i].  Column and row indices keep the *)
(* code's 0-based values; TLA+ sequences are accessed at index + 1.        *)
(***************************************************************************)
EXTENDS Integers, Sequences, FiniteSets, TLC

\* ------------------------------------------------------------------ bounds
MaxRows == 3
MaxBatch == 2
MaxLimit == 2

\* Upper bound on the child pulls one terminating call can make: a child
\* holds at most MaxRows non-empty batches followed by None.
Fuel == MaxRows + 2

\* Stand-in for usize::MAX (Limit::new, limit.unwrap_or(usize::MAX)); no
\* arithmetic of the model comes near it.
UsizeMax == 2147483647

\* ------------------------------------------------------------ Option, util
None == <<>>
Some(x) == <<x>>
IsSome(o) == Len(o) = 1
Unwrap(o) == o[1]

Min(a, b) == IF a <= b THEN a ELSE b

Range(s) == {s[k] : k \in 1..Len(s)}

\* Set of all sequences over S of length 0..n
SeqUpTo(S, n) == UNION {[1..k -> S] : k \in 0..n}

\* ------------------------------------------------------- Value and Column
Int64(n) == [t |-> "Int64", v |-> n]
Float64(n) == [t |-> "Float64", v |-> n]
Str(n) == [t |-> "String", v |-> n]

\* A column: its DataType and its flat buffer of values.
NewColumn(dt, data) == [dt |-> dt, data |-> data]

ColLen(c) == Len(c.data)

\* Column::slice(Some(a..b)) on a column that holds at least b values
ColSlice(c, a, b) == [k \in 1..(b - a) |-> c.data[a + k]]

\* ------------------------------------------------------------------ Table
\* The table has two Int64 columns, "id" and "g".
TableColumnNames == <<"id", "g">>
TableColumnTypes == <<"Int64", "Int64">>

TableColumnCount == Len(TableColumnNames)

TableGetColumnType(name) ==
  TableColumnTypes[CHOOSE j \in 1..TableColumnCount : TableColumnNames[j] = name]

TableRowCount(t) == IF Len(t) = 0 THEN 0 ELSE ColLen(t[1])

TableGetColumn(t, name) ==
  t[CHOOSE j \in 1..TableColumnCount : TableColumnNames[j] = name]

\* ------------------------------------------------------------------ Batch
\* A Batch is the sequence of its columns (Batch.columns).
BatchEmpty == <<>>

row_count(b) == IF Len(b) = 0 THEN 0 ELSE ColLen(b[1])

column_count(b) == Len(b)

is_empty(b) == row_count(b) = 0

\* Batch::new panics on an empty column list or on unequal column lengths.
BatchNewPanics(cols) ==
  \/ Len(cols) = 0
  \/ \E k \in 1..Len(cols) : ColLen(cols[k]) /= ColLen(cols[1])

\* Batch::get(row_index, column_index): "Ok" with the value, or the error.
BatchGet(b, row, col) ==
  IF Len(b) = 0 THEN [ok |-> FALSE, e |-> "Custom", v |-> Int64(0)]
  ELSE IF col >= Len(b) THEN [ok |-> FALSE, e |-> "InvalidColumnIndex", v |-> Int64(0)]
  ELSE IF row >= ColLen(b[col + 1]) THEN [ok |-> FALSE, e |-> "InvalidRowIndex", v |-> Int64(0)]
  ELSE [ok |-> TRUE, e |-> "", v |-> b[col + 1].data[row + 1]]

\* Batch::skip_rows(n), defined for n < row_count (else a Custom error)
skip_rows(b, n) ==
  [c \in 1..Len(b) |-> NewColumn(b[c].dt, ColSlice(b[c], n, ColLen(b[c])))]

\* Batch::take_rows(n), defined for n <= row_count (else a Custom error)
take_rows(b, n) ==
  [c \in 1..Len(b) |-> NewColumn(b[c].dt, ColSlice(b[c], 0, n))]

\* The rows of a batch, row-major: what a consumer reads with Batch::get.
RowsOf(b) ==
  [r \in 1..row_count(b) |-> [c \in 1..Len(b) |-> b[c].data[r]]]

\* ------------------------------------------------------------- Predicates
CmpPred(col, op, value) == [k |-> "cmp", col |-> col, op |-> op, value |-> value]
AndPred(l, r) == [k |-> "and", l |-> l, r |-> r]
OrPred(l, r) == [k |-> "or", l |-> l, r |-> r]

CompareNum(op, a, b) ==
  CASE op = "=" -> a = b
    [] op = "!=" -> a /= b
    [] op = "<" -> a < b
    [] op = "<=" -> a <= b
    [] op = ">" -> a > b
    [] op = ">=" -> a >= b

\* BinaryComparison::eval: the match arms on (op, actual, constant).
BinaryComparisonEval(p, b, row) ==
  LET g == BatchGet(b, row, p.col) IN
  IF ~g.ok THEN g.e
  ELSE LET a == g.v
           c == p.value
           same == a.t = c.t
           numeric == a.t \in {"Int64", "Float64"} /\ c.t \in {"Int64", "Float64"}
           covered ==
             \/ same /\ a.t \in {"Int64", "Float64"}
             \/ same /\ a.t = "String" /\ p.op \in {"=", "!="}
             \/ ~same /\ numeric /\ p.op \in {"<", "<=", ">", ">="}
       IN IF covered /\ CompareNum(p.op, a.v, c.v) THEN "T" ELSE "F"

RECURSIVE Eval_Eager(_, _, _)
\* An evaluation of both operands of And and Or before they are combined
Eval_Eager(p, b, row) ==
  CASE p.k = "cmp" -> BinaryComparisonEval(p, b, row)
    [] p.k \in {"and", "or"} ->
         LET l == Eval_Eager(p.l, b, row)
             r == Eval_Eager(p.r, b, row)
         IN IF l \notin {"T", "F"} THEN l
            ELSE IF r \notin {"T", "F"} THEN r
            ELSE IF p.k = "and" THEN (IF l = "T" THEN r ELSE l)
            ELSE (IF l = "F" THEN r ELSE l)

RECURSIVE Eval(_, _, _)
\* Predicate::eval for BinaryComparison, And, Or: "T", "F" or the error.
Eval(p, b, row) ==
  CASE p.k = "cmp" -> BinaryComparisonEval(p, b, row)
    [] p.k = "and" ->
         LET l == Eval(p.l, b, row) IN
         IF l = "T" THEN Eval(p.r, b, row) ELSE l
    [] p.k = "or" ->
         LET l == Eval(p.l, b, row) IN
         IF l = "F" THEN Eval(p.r, b, row) ELSE l

\* -------------------------------------------------------- operator records
TableScanNew(t) ==
  [kind |-> "TableScan", state |-> "NotOpen",
   column_indices |-> [k \in 1..TableColumnCount |-> k - 1],
   current_row |-> 0, total_rows |-> TableRowCount(t),
   batch_size |-> 1024, output_schema |-> None]

TableScanWithColumns(t, ci) ==
  [kind |-> "TableScan", state |-> "NotOpen", column_indices |-> ci,
   current_row |-> 0, total_rows |-> TableRowCount(t),
   batch_size |-> 1024, output_schema |-> None]

\* TableScan::with_batch_size panics on 0; callers pass bs >= 1.
ScanWithBatchSize(op, bs) == [op EXCEPT !.batch_size = bs]

FilterNew(pred) ==
  [kind |-> "Filter", state |-> "NotOpen", predicate |-> pred,
   output_schema |-> None]

LimitNew(limit, offset) ==
  [kind |-> "Limit", state |-> "NotOpen",
   limit |-> IF IsSome(limit) THEN Unwrap(limit) ELSE UsizeMax,
   offset |-> offset, rows_returned |-> 0, rows_skipped |-> 0]

\* ----------------------------------------------------- call bookkeeping
\* A call's outcome: the state after it, the kind of outcome
\* ("Ok" | "Some" | "None" | "Err" | "Panic" | "Hang"), the error and the batch.
Res(S, k, e, b) == [S |-> S, k |-> k, e |-> e, b |-> b]

SetOp(S, i, op) == [S EXCEPT !.ops[i] = op]

\* History kept per operator.  Since its last successful open: the rows and
\* the number of batches it returned (the count saturates at MaxRows + 2),
\* whether it received a next_batch call, whether it returned None, None
\* again after a None, an error, a zero-row batch, or anything but None after
\* a None while Open.  nb / op / cl count the next_batch / open / close calls
\* it received during the caller's current call.
HistInit == [rows |-> <<>>, batches |-> 0, pulled |-> FALSE, none |-> FALSE,
             noneAgain |-> FALSE, erred |-> FALSE, emptySome |-> FALSE,
             afterNone |-> FALSE, nb |-> 0, op |-> 0, cl |-> 0]

ResetCalls(S) ==
  [S EXCEPT !.hist = [i \in 1..Len(S.hist) |->
                        [S.hist[i] EXCEPT !.nb = 0, !.op = 0, !.cl = 0]]]


\* ------------------------------------------------------------- aggregates
\* An aggregate instance: its function, the data type it was built with and
\* its accumulator (CountAggregate.count, SumAggregate::Int64/Float64).
CountAggregateNew(dt) == [fn |-> "COUNT", dt |-> "Int64", acc |-> 0]

\* SumAggregate::new rejects String; callers pass a numeric type.
SumAggregateNew(dt) == [fn |-> "SUM", dt |-> dt, acc |-> 0]

\* MinAggregate / MaxAggregate: the variant of the data type, holding None
MinAggregateNew(dt) == [fn |-> "MIN", dt |-> dt, acc |-> None]

MaxAggregateNew(dt) == [fn |-> "MAX", dt |-> dt, acc |-> None]

\* AvgAggregate::new rejects String; its fields are sum and count.
AvgAggregateNew(dt) == [fn |-> "AVG", dt |-> "Float64", sum |-> 0, count |-> 0]

\* (variant: reset keeps the accumulator)
AggReset_Keep(a) == a

\* (variant: AVG's reset clears the sum and keeps the count)
AggReset_KeepCount(a) ==
  CASE a.fn \in {"COUNT", "SUM"} -> [a EXCEPT !.acc = 0]
    [] a.fn \in {"MIN", "MAX"} -> [a EXCEPT !.acc = None]
    [] a.fn = "AVG" -> [a EXCEPT !.sum = 0]

AggReset(a) ==
  CASE a.fn \in {"COUNT", "SUM"} -> [a EXCEPT !.acc = 0]
    [] a.fn \in {"MIN", "MAX"} -> [a EXCEPT !.acc = None]
    [] a.fn = "AVG" -> [a EXCEPT !.sum = 0, !.count = 0]

\* AggregateFunction::update(Some(value)): the new instance, or a type error.
AggUpdate(a, value) ==
  CASE a.fn = "COUNT" -> [ok |-> TRUE, a |-> [a EXCEPT !.acc = @ + 1]]
    [] a.fn = "SUM" ->
         IF \/ a.dt = "Int64" /\ value.t = "Int64"
            \/ a.dt = "Float64" /\ value.t \in {"Int64", "Float64"}
         THEN [ok |-> TRUE, a |-> [a EXCEPT !.acc = @ + value.v]]
         ELSE [ok |-> FALSE, a |-> a]
    [] a.fn = "MIN" ->
         IF a.dt /= value.t THEN [ok |-> FALSE, a |-> a]
         ELSE [ok |-> TRUE,
               a |-> [a EXCEPT !.acc = IF IsSome(@) /\ Unwrap(@) < value.v THEN @
                                       ELSE Some(value.v)]]
    [] a.fn = "MAX" ->
         IF a.dt /= value.t THEN [ok |-> FALSE, a |-> a]
         ELSE [ok |-> TRUE,
               a |-> [a EXCEPT !.acc = IF IsSome(@) /\ Unwrap(@) > value.v THEN @
                                       ELSE Some(value.v)]]
    [] a.fn = "AVG" ->
         IF value.t \in {"Int64", "Float64"}
         THEN [ok |-> TRUE, a |-> [a EXCEPT !.sum = @ + value.v, !.count = @ + 1]]
         ELSE [ok |-> FALSE, a |-> a]

\* (variant: a missing value is counted by AVG)
AggUpdateOption_CountMissing(a, value) ==
  IF IsSome(value) THEN AggUpdate(a, Unwrap(value))
  ELSE IF a.fn = "AVG" THEN [ok |-> TRUE, a |-> [a EXCEPT !.count = @ + 1]]
  ELSE [ok |-> TRUE, a |-> a]

\* AggregateFunction::update(value): a missing value (None) changes nothing.
AggUpdateOption(a, value) ==
  IF IsSome(value) THEN AggUpdate(a, Unwrap(value))
  ELSE [ok |-> TRUE, a |-> a]

\* The f64 quotient sum / count, kept as the fraction in lowest terms
Quotient(sum, count) ==
  LET g == CHOOSE d \in 1..count :
             /\ sum % d = 0 /\ count % d = 0
             /\ \A q \in (d + 1)..count : sum % q /= 0 \/ count % q /= 0
  IN [num |-> sum \div g, den |-> count \div g]

AggResult(a) ==
  CASE a.fn \in {"COUNT", "SUM"} -> Some([t |-> a.dt, v |-> a.acc])
    [] a.fn \in {"MIN", "MAX"} ->
         IF IsSome(a.acc) THEN Some([t |-> a.dt, v |-> Unwrap(a.acc)]) ELSE None
    [] a.fn = "AVG" ->
         IF a.count = 0 THEN None
         ELSE Some([t |-> "Float64", v |-> Quotient(a.sum, a.count)])

AggDataType(a) == a.dt

\* ----------------------------------------------- remaining operator records
ProjectNew(ci) ==
  [kind |-> "Project", state |-> "NotOpen", column_indices |-> ci,
   aliases |-> None, output_schema |-> None]

ProjectWithAliases(op, aliases) == [op EXCEPT !.aliases = Some(aliases)]

GroupByNew(gcols, acols, aggs) ==
  [kind |-> "GroupBy", state |-> "NotOpen", group_by_columns |-> gcols,
   aggregate_columns |-> acols, aggregates |-> aggs,
   output_schema |-> None, output_column_names |-> None,
   grouped_data |-> None, results_returned |-> FALSE]

SortNew(cols, dirs) ==
  [kind |-> "Sort", state |-> "NotOpen", sort_columns |-> cols,
   sort_directions |-> dirs, sorted_data |-> None, current_row |-> 0,
   batch_size |-> 1024]

\* Sort::with_batch_size accepts every usize, 0 included.
SortWithBatchSize(op, bs) == [op EXCEPT !.batch_size = bs]

\* -------------------------------------------------- schema / column_names
RECURSIVE Schema(_, _)
\* Operator::schema(): Some(name -> DataType), or None for SchemaNotFound.
Schema(S, i) ==
  IF S.ops[i].kind \in {"Sort", "Limit"} THEN Schema(S, i - 1)
  ELSE S.ops[i].output_schema

\* Outcome of column_names(): "Ok" with the names, "Err" or "Panic".
Names(k, e, names) == [k |-> k, e |-> e, names |-> names]

TableScanColumnNames(op) ==
  IF Len(op.column_indices) = 0 THEN Names("Ok", "", TableColumnNames)
  ELSE IF \E k \in 1..Len(op.column_indices) : op.column_indices[k] >= TableColumnCount
       THEN Names("Err", "InvalidColumnIndex", <<>>)
  ELSE Names("Ok", "", [k \in 1..Len(op.column_indices) |->
                          TableColumnNames[op.column_indices[k] + 1]])

\* Project::column_names: indexes the child's names without a range check.
ProjectColumnNames(op, child) ==
  IF child.k /= "Ok" THEN child
  ELSE IF \E k \in 1..Len(op.column_indices) : op.column_indices[k] >= Len(child.names)
       THEN Names("Panic", "", <<>>)
  ELSE Names("Ok", "",
         [k \in 1..Len(op.column_indices) |->
            IF IsSome(op.aliases) /\ k <= Len(Unwrap(op.aliases))
            THEN Unwrap(op.aliases)[k]
            ELSE child.names[op.column_indices[k] + 1]])

RECURSIVE ColumnNames(_, _)
ColumnNames(S, i) ==
  LET op == S.ops[i] IN
  CASE op.kind = "TableScan" -> TableScanColumnNames(op)
    [] op.kind = "Project" -> ProjectColumnNames(op, ColumnNames(S, i - 1))
    [] op.kind = "GroupBy" ->
         IF IsSome(op.output_column_names)
         THEN Names("Ok", "", Unwrap(op.output_column_names))
         ELSE Names("Err", "Custom", <<>>)
    [] OTHER -> ColumnNames(S, i - 1)

\* A call through the Box<dyn Operator>: the method of operator i's kind
RECURSIVE Dispatch(_, _, _)

Open(S, i) == Dispatch(S, i, "open")

NextBatch(S, i) == Dispatch(S, i, "next_batch")

Close(S, i) == Dispatch(S, i, "close")

\* -------------------------------------------------------------- TableScan
ScanSchema(ci) ==
  [n \in {TableColumnNames[ci[k] + 1] : k \in 1..Len(ci)} |-> TableGetColumnType(n)]

TableScanOpen(S, i) ==
  LET op == S.ops[i] IN
  IF op.state = "Open" THEN Res(S, "Err", "OperatorAlreadyOpen", <<>>)
  ELSE IF \E k \in 1..Len(op.column_indices) : op.column_indices[k] >= TableColumnCount
       THEN Res(S, "Err", "InvalidColumnIndex", <<>>)
  ELSE Res(SetOp(S, i, [op EXCEPT !.output_schema = Some(ScanSchema(op.column_indices)),
                                  !.state = "Open"]),
           "Ok", "", <<>>)

\* (variant: every batch is sliced from the start of the table)
TableScanNextBatch_FromStart(S, i) ==
  LET op == S.ops[i] IN
  IF op.state /= "Open" THEN Res(S, "Err", "OperatorNotOpen", <<>>)
  ELSE IF op.current_row >= op.total_rows THEN Res(S, "None", "", <<>>)
  ELSE LET remaining_rows == op.total_rows - op.current_row
           batch_rows == Min(op.batch_size, remaining_rows)
           batch_columns ==
             [k \in 1..Len(op.column_indices) |->
                LET col_name == TableColumnNames[op.column_indices[k] + 1] IN
                NewColumn(TableGetColumnType(col_name),
                          ColSlice(TableGetColumn(S.table, col_name), 0, batch_rows))]
       IN IF BatchNewPanics(batch_columns) THEN Res(S, "Panic", "", <<>>)
          ELSE Res(SetOp(S, i, [op EXCEPT !.current_row = @ + batch_rows]),
                   "Some", "", batch_columns)

TableScanNextBatch(S, i) ==
  LET op == S.ops[i] IN
  IF op.state /= "Open" THEN Res(S, "Err", "OperatorNotOpen", <<>>)
  ELSE IF op.current_row >= op.total_rows THEN Res(S, "None", "", <<>>)
  ELSE LET remaining_rows == op.total_rows - op.current_row
           batch_rows == Min(op.batch_size, remaining_rows)
           start_row == op.current_row
           end_row == start_row + batch_rows
           batch_columns ==
             [k \in 1..Len(op.column_indices) |->
                LET col_name == TableColumnNames[op.column_indices[k] + 1] IN
                NewColumn(TableGetColumnType(col_name),
                          ColSlice(TableGetColumn(S.table, col_name), start_row, end_row))]
       IN IF BatchNewPanics(batch_columns) THEN Res(S, "Panic", "", <<>>)
          ELSE Res(SetOp(S, i, [op EXCEPT !.current_row = @ + batch_rows]),
                   "Some", "", batch_columns)

TableScanClose(S, i) ==
  Res(SetOp(S, i, [S.ops[i] EXCEPT !.state = "Closed"]), "Ok", "", <<>>)

\* ----------------------------------------------------------------- Filter
FilterOpen(S, i) ==
  LET op == S.ops[i] IN
  IF op.state = "Open" THEN Res(S, "Err", "OperatorAlreadyOpen", <<>>)
  ELSE LET c == Open(S, i - 1) IN
       IF c.k /= "Ok" THEN c
       ELSE LET sch == Schema(c.S, i - 1) IN
            IF ~IsSome(sch) THEN Res(c.S, "Err", "SchemaNotFound", <<>>)
            ELSE Res(SetOp(c.S, i, [op EXCEPT !.output_schema = sch, !.state = "Open"]),
                     "Ok", "", <<>>)

\* (variant: the last row on which the predicate is true is left out)
MatchingRowIndices_DropLast(pred, b) ==
  LET all == SelectSeq([r \in 1..row_count(b) |-> r - 1], LAMBDA r : Eval(pred, b, r) = "T")
  IN SubSeq(all, 1, Len(all) - 1)

\* Row indices (0-based) of the batch on which the predicate is true
MatchingRowIndices(pred, b) ==
  SelectSeq([r \in 1..row_count(b) |-> r - 1], LAMBDA r : Eval(pred, b, r) = "T")

\* First row (0-based) on which the predicate returns an error, or -1
FirstEvalError(pred, b) ==
  IF \E r \in 0..(row_count(b) - 1) : Eval(pred, b, r) \notin {"T", "F"}
  THEN CHOOSE r \in 0..(row_count(b) - 1) :
         /\ Eval(pred, b, r) \notin {"T", "F"}
         /\ \A q \in 0..(r - 1) : Eval(pred, b, q) \in {"T", "F"}
  ELSE -1

\* (variant: the k-th output row is read at k, not at the k-th match)
FilteredBatch_ByPosition(b, idx) ==
  [c \in 1..Len(b) |->
     NewColumn(b[c].dt, [k \in 1..Len(idx) |-> b[c].data[k]])]

\* The batch rebuilt from the matching rows of every column
FilteredBatch(b, idx) ==
  [c \in 1..Len(b) |->
     NewColumn(b[c].dt, [k \in 1..Len(idx) |-> b[c].data[idx[k] + 1]])]

\* (variant: a batch without a match ends the stream instead of recursing)
FilterNextBatch_NoRecurse(S, i, fuel) ==
  LET op == S.ops[i] IN
  IF op.state /= "Open" THEN Res(S, "Err", "OperatorNotOpen", <<>>)
  ELSE LET c == NextBatch(S, i - 1) IN
       IF c.k /= "Some" THEN c
       ELSE IF row_count(c.b) = 0 THEN c
       ELSE LET bad == FirstEvalError(op.predicate, c.b)
                matching_row_indices == MatchingRowIndices(op.predicate, c.b)
            IN IF bad >= 0 THEN Res(c.S, "Err", Eval(op.predicate, c.b, bad), <<>>)
               ELSE IF Len(matching_row_indices) = 0 THEN Res(c.S, "None", "", <<>>)
               ELSE Res(c.S, "Some", "", FilteredBatch(c.b, matching_row_indices))

\* (variant: the child is asked once more after it returned None)
FilterNextBatch_PullAfterNone(S, i, fuel) ==
  LET r == FilterNextBatch_NoRecurse(S, i, fuel) IN
  IF S.ops[i].state = "Open" /\ r.k = "None" THEN NextBatch(r.S, i - 1) ELSE r

RECURSIVE FilterNextBatch(_, _, _)
\* Filter::next_batch; fuel bounds the self-recursion on batches without a
\* matching row.
FilterNextBatch(S, i, fuel) ==
  LET op == S.ops[i] IN
  IF op.state /= "Open" THEN Res(S, "Err", "OperatorNotOpen", <<>>)
  ELSE IF fuel = 0 THEN Res(S, "Hang", "", <<>>)
  ELSE LET c == NextBatch(S, i - 1) IN
       IF c.k /= "Some" THEN c
       ELSE IF row_count(c.b) = 0 THEN c
       ELSE LET bad == FirstEvalError(op.predicate, c.b)
                matching_row_indices == MatchingRowIndices(op.predicate, c.b)
            IN IF bad >= 0 THEN Res(c.S, "Err", Eval(op.predicate, c.b, bad), <<>>)
               ELSE IF Len(matching_row_indices) = 0 THEN FilterNextBatch(c.S, i, fuel - 1)
               ELSE Res(c.S, "Some", "", FilteredBatch(c.b, matching_row_indices))

\* (variant: close does not reach the child)
CloseWithChild_NoPropagate(S, i) ==
  Res(SetOp(S, i, [S.ops[i] EXCEPT !.state = "Closed"]), "Ok", "", <<>>)

\* close(): the state is set before the child's close is attempted.
CloseWithChild(S, i) ==
  LET c == Close(SetOp(S, i, [S.ops[i] EXCEPT !.state = "Closed"]), i - 1) IN c


\* ---------------------------------------------------------------- Project
RECURSIVE ProjectOpenLoop_NoDuplicateCheck(_, _, _, _, _)
\* (variant: an output name already present is overwritten)
ProjectOpenLoop_NoDuplicateCheck(op, child_names, child_schema, k, out) ==
  IF k > Len(op.column_indices) THEN [k |-> "Ok", e |-> "", schema |-> out]
  ELSE LET index == op.column_indices[k] IN
       IF index >= Len(child_names)
       THEN [k |-> "Err", e |-> "InvalidColumnIndex", schema |-> out]
       ELSE LET original_name == child_names[index + 1] IN
            IF original_name \notin DOMAIN child_schema
            THEN [k |-> "Panic", e |-> "", schema |-> out]
            ELSE IF IsSome(op.aliases) /\ k > Len(Unwrap(op.aliases))
            THEN [k |-> "Err", e |-> "Custom", schema |-> out]
            ELSE LET output_name == IF IsSome(op.aliases) THEN Unwrap(op.aliases)[k]
                                    ELSE original_name
                 IN ProjectOpenLoop_NoDuplicateCheck(op, child_names, child_schema, k + 1,
                           [n \in (DOMAIN out) \cup {output_name} |->
                              IF n = output_name THEN child_schema[original_name]
                              ELSE out[n]])

RECURSIVE ProjectOpenLoop(_, _, _, _, _)
\* The validation loop of Project::open from position k (1-based) on, with
\* the output names inserted so far: "Ok" with the schema, or the failure.
ProjectOpenLoop(op, child_names, child_schema, k, out) ==
  IF k > Len(op.column_indices) THEN [k |-> "Ok", e |-> "", schema |-> out]
  ELSE LET index == op.column_indices[k] IN
       IF index >= Len(child_names)
       THEN [k |-> "Err", e |-> "InvalidColumnIndex", schema |-> out]
       ELSE LET original_name == child_names[index + 1] IN
            IF original_name \notin DOMAIN child_schema
            THEN [k |-> "Panic", e |-> "", schema |-> out]
            ELSE IF IsSome(op.aliases) /\ k > Len(Unwrap(op.aliases))
            THEN [k |-> "Err", e |-> "Custom", schema |-> out]
            ELSE LET output_name == IF IsSome(op.aliases) THEN Unwrap(op.aliases)[k]
                                    ELSE original_name
                 IN IF output_name \in DOMAIN out
                    THEN [k |-> "Err", e |-> "Custom", schema |-> out]
                    ELSE ProjectOpenLoop(op, child_names, child_schema, k + 1,
                           [n \in (DOMAIN out) \cup {output_name} |->
                              IF n = output_name THEN child_schema[original_name]
                              ELSE out[n]])

EmptySchema == [n \in {} |-> "Int64"]

ProjectOpen(S, i) ==
  LET op == S.ops[i] IN
  IF op.state = "Open" THEN Res(S, "Err", "OperatorAlreadyOpen", <<>>)
  ELSE LET c == Open(S, i - 1) IN
       IF c.k /= "Ok" THEN c
       ELSE LET sch == Schema(c.S, i - 1)
                nm == ColumnNames(c.S, i - 1)
            IN IF ~IsSome(sch) THEN Res(c.S, "Err", "SchemaNotFound", <<>>)
               ELSE IF nm.k /= "Ok" THEN Res(c.S, nm.k, nm.e, <<>>)
               ELSE LET l == ProjectOpenLoop(op, nm.names, Unwrap(sch), 1, EmptySchema) IN
                    IF l.k /= "Ok" THEN Res(c.S, l.k, l.e, <<>>)
                    ELSE Res(SetOp(c.S, i, [op EXCEPT !.output_schema = Some(l.schema),
                                                      !.state = "Open"]),
                             "Ok", "", <<>>)

\* (variant: the state check is missing)
ProjectNextBatch_NoCheck(S, i) ==
  LET op == S.ops[i]
      c == NextBatch(S, i - 1)
  IN IF c.k /= "Some" THEN c
     ELSE IF \E k \in 1..Len(op.column_indices) : op.column_indices[k] >= Len(c.b)
          THEN Res(c.S, "Err", "InvalidColumnIndex", <<>>)
          ELSE LET projected_columns ==
                     [k \in 1..Len(op.column_indices) |-> c.b[op.column_indices[k] + 1]]
               IN IF BatchNewPanics(projected_columns) THEN Res(c.S, "Panic", "", <<>>)
                  ELSE Res(c.S, "Some", "", projected_columns)

ProjectNextBatch(S, i) ==
  LET op == S.ops[i] IN
  IF op.state /= "Open" THEN Res(S, "Err", "OperatorNotOpen", <<>>)
  ELSE LET c == NextBatch(S, i - 1) IN
       IF c.k /= "Some" THEN c
       ELSE IF \E k \in 1..Len(op.column_indices) : op.column_indices[k] >= Len(c.b)
            THEN Res(c.S, "Err", "InvalidColumnIndex", <<>>)
            ELSE LET projected_columns ==
                       [k \in 1..Len(op.column_indices) |-> c.b[op.column_indices[k] + 1]]
                 IN IF BatchNewPanics(projected_columns) THEN Res(c.S, "Panic", "", <<>>)
                    ELSE Res(c.S, "Some", "", projected_columns)

\* ------------------------------------------------------------------ Limit
\* (variant: the already-open check is missing)
LimitOpen_NoCheck(S, i) ==
  LET op == S.ops[i]
      c == Open(S, i - 1)
  IN IF c.k /= "Ok" THEN c
     ELSE Res(SetOp(c.S, i, [op EXCEPT !.rows_returned = 0, !.rows_skipped = 0,
                                       !.state = "Open"]),
              "Ok", "", <<>>)

LimitOpen(S, i) ==
  LET op == S.ops[i] IN
  IF op.state = "Open" THEN Res(S, "Err", "OperatorAlreadyOpen", <<>>)
  ELSE LET c == Open(S, i - 1) IN
       IF c.k /= "Ok" THEN c
       ELSE Res(SetOp(c.S, i, [op EXCEPT !.rows_returned = 0, !.rows_skipped = 0,
                                         !.state = "Open"]),
                "Ok", "", <<>>)

\* (variant: the batch is never cut down to the remaining limit)
LimitApplyLimit_NoTake(S, i, batch) ==
  LET op == S.ops[i]
      S2 == SetOp(S, i, [op EXCEPT !.rows_returned = @ + row_count(batch)])
  IN IF is_empty(batch) THEN Res(S2, "None", "", <<>>)
     ELSE Res(S2, "Some", "", batch)

\* The part of Limit::next_batch after the offset has been applied
LimitApplyLimit(S, i, batch) ==
  LET op == S.ops[i]
      remaining_limit == op.limit - op.rows_returned
      out == IF row_count(batch) > remaining_limit THEN take_rows(batch, remaining_limit)
             ELSE batch
      S2 == SetOp(S, i, [op EXCEPT !.rows_returned = @ + row_count(out)])
  IN IF is_empty(out) THEN Res(S2, "None", "", <<>>)
     ELSE Res(S2, "Some", "", out)

\* (variant: the limit is never found reached before the child is pulled)
LimitReached_Never(op) == FALSE

\* `if self.rows_returned >= self.limit`: enough rows were returned
LimitReached(op) == op.rows_returned >= op.limit

RECURSIVE LimitNextBatch(_, _, _)
\* Limit::next_batch; fuel bounds the self-recursion on wholly skipped batches.
LimitNextBatch(S, i, fuel) ==
  LET op == S.ops[i] IN
  IF op.state /= "Open" THEN Res(S, "Err", "OperatorNotOpen", <<>>)
  ELSE IF LimitReached(op) THEN Res(S, "None", "", <<>>)
  ELSE IF fuel = 0 THEN Res(S, "Hang", "", <<>>)
  ELSE LET c == NextBatch(S, i - 1) IN
       IF c.k /= "Some" THEN c
       ELSE IF op.rows_skipped < op.offset
            THEN LET batch_row_count == row_count(c.b) IN
                 IF op.rows_skipped + batch_row_count <= op.offset
                 THEN LimitNextBatch(
                        SetOp(c.S, i, [op EXCEPT !.rows_skipped = @ + batch_row_count]),
                        i, fuel - 1)
                 ELSE LET skip_count == op.offset - op.rows_skipped IN
                      LimitApplyLimit(
                        SetOp(c.S, i, [op EXCEPT !.rows_skipped = @ + skip_count]),
                        i, skip_rows(c.b, skip_count))
            ELSE LimitApplyLimit(c.S, i, c.b)

\* ------------------------------------------------- draining a child (open)
\* A loop that takes the first batch only
Drain_FirstBatch(S, i, acc, fuel) ==
  LET c == NextBatch(S, i) IN
  IF c.k = "Some" THEN [S |-> c.S, k |-> "Ok", e |-> "", batches |-> <<c.b>>]
  ELSE IF c.k = "None" THEN [S |-> c.S, k |-> "Ok", e |-> "", batches |-> acc]
  ELSE [S |-> c.S, k |-> c.k, e |-> c.e, batches |-> acc]

RECURSIVE Drain(_, _, _, _)
\* `while let Some(batch) = self.child.next_batch()?` of GroupBy::open and
\* Sort::open: the batches pulled from operator i until it returns None.
Drain(S, i, acc, fuel) ==
  IF fuel = 0 THEN [S |-> S, k |-> "Hang", e |-> "", batches |-> acc]
  ELSE LET c == NextBatch(S, i) IN
       IF c.k = "Some" THEN Drain(c.S, i, Append(acc, c.b), fuel - 1)
       ELSE IF c.k = "None" THEN [S |-> c.S, k |-> "Ok", e |-> "", batches |-> acc]
       ELSE [S |-> c.S, k |-> c.k, e |-> c.e, batches |-> acc]

RECURSIVE FlattenRows(_)
\* All rows of a list of batches, in order
FlattenRows(batches) ==
  IF Len(batches) = 0 THEN <<>>
  ELSE RowsOf(Head(batches)) \o FlattenRows(Tail(batches))


\* ------------------------------------------------------------------- Sort
\* DataType derives Ord in declaration order.
DataTypeRank(dt) == CASE dt = "Int64" -> 0 [] dt = "Float64" -> 1 [] dt = "String" -> 2

Sign(a, b) == IF a < b THEN -1 ELSE IF a > b THEN 1 ELSE 0

\* The comparison of two values inside Sort::open's sort_by closure
CmpValues(a, b) ==
  IF a.t = b.t THEN Sign(a.v, b.v)
  ELSE Sign(DataTypeRank(a.t), DataTypeRank(b.t))

RECURSIVE CmpRows(_, _, _, _, _)
\* The sort_by closure: keys k..n of the zipped (column, direction) list
CmpRows(row_a, row_b, cols, dirs, k) ==
  IF k > Min(Len(cols), Len(dirs)) THEN 0
  ELSE LET cmp == CmpValues(row_a[cols[k] + 1], row_b[cols[k] + 1]) IN
       IF cmp /= 0 THEN (IF dirs[k] = "Descending" THEN 0 - cmp ELSE cmp)
       ELSE CmpRows(row_a, row_b, cols, dirs, k + 1)

\* (variant: r is inserted in front of the elements it ties with)
InsertRow_Unstable(sorted, r, cols, dirs) ==
  LET later == {j \in 1..Len(sorted) : CmpRows(sorted[j], r, cols, dirs, 1) >= 0}
      pos == IF later = {} THEN Len(sorted) + 1
             ELSE CHOOSE j \in later : \A q \in later : j <= q
  IN SubSeq(sorted, 1, pos - 1) \o <<r>> \o SubSeq(sorted, pos, Len(sorted))

\* Insert r behind every element that does not sort after it (stability)
InsertRow(sorted, r, cols, dirs) ==
  LET later == {j \in 1..Len(sorted) : CmpRows(sorted[j], r, cols, dirs, 1) > 0}
      pos == IF later = {} THEN Len(sorted) + 1
             ELSE CHOOSE j \in later : \A q \in later : j <= q
  IN SubSeq(sorted, 1, pos - 1) \o <<r>> \o SubSeq(sorted, pos, Len(sorted))

RECURSIVE StableSort(_, _, _)
\* Vec::sort_by, a stable sort
StableSort(rows, cols, dirs) ==
  IF Len(rows) = 0 THEN <<>>
  ELSE InsertRow(StableSort(SubSeq(rows, 1, Len(rows) - 1), cols, dirs),
                 rows[Len(rows)], cols, dirs)

\* The closure indexes row[col] unchecked: it panics when a key's column is
\* out of range and some comparison reaches that key.
SortPanics(rows, cols, dirs) ==
  \E k \in 1..Min(Len(cols), Len(dirs)) :
    /\ \E r \in 1..Len(rows) : cols[k] >= Len(rows[r])
    /\ \A q \in 1..(k - 1) : \A r \in 1..Len(rows) : cols[q] < Len(rows[r])
    /\ \E r1, r2 \in 1..Len(rows) :
         r1 < r2 /\ \A q \in 1..(k - 1) :
                      CmpValues(rows[r1][cols[q] + 1], rows[r2][cols[q] + 1]) = 0

\* Rows back to columns, typed by the child's schema in column_names order
RowsToBatch(rows, names, schema) ==
  [c \in 1..Len(names) |->
     NewColumn(schema[names[c]], [r \in 1..Len(rows) |-> rows[r][c]])]

SortOpen(S, i) ==
  LET op == S.ops[i] IN
  IF op.state = "Open" THEN Res(S, "Err", "OperatorAlreadyOpen", <<>>)
  ELSE LET c == Open(S, i - 1) IN
       IF c.k /= "Ok" THEN c
       ELSE LET d == Drain(c.S, i - 1, <<>>, Fuel) IN
            IF d.k /= "Ok" THEN Res(d.S, d.k, d.e, <<>>)
            ELSE LET all_rows == FlattenRows(d.batches) IN
                 IF Len(all_rows) >= 2 /\ SortPanics(all_rows, op.sort_columns, op.sort_directions)
                 THEN Res(d.S, "Panic", "", <<>>)
                 ELSE LET sorted == StableSort(all_rows, op.sort_columns, op.sort_directions)
                          sch == Schema(d.S, i - 1)
                          nm == ColumnNames(d.S, i - 1)
                      IN IF Len(sorted) = 0
                         THEN Res(SetOp(d.S, i, [op EXCEPT !.sorted_data = Some(BatchEmpty),
                                                           !.current_row = 0,
                                                           !.state = "Open"]),
                                  "Ok", "", <<>>)
                         ELSE IF ~IsSome(sch) THEN Res(d.S, "Err", "SchemaNotFound", <<>>)
                         ELSE IF nm.k /= "Ok" THEN Res(d.S, nm.k, nm.e, <<>>)
                         ELSE IF \/ Len(nm.names) > Len(sorted[1])
                                 \/ BatchNewPanics(RowsToBatch(sorted, nm.names, Unwrap(sch)))
                              THEN Res(d.S, "Panic", "", <<>>)
                         ELSE Res(SetOp(d.S, i,
                                    [op EXCEPT !.sorted_data =
                                                 Some(RowsToBatch(sorted, nm.names, Unwrap(sch))),
                                               !.current_row = 0,
                                               !.state = "Open"]),
                                  "Ok", "", <<>>)

SortNextBatch(S, i) ==
  LET op == S.ops[i] IN
  IF op.state /= "Open" THEN Res(S, "Err", "OperatorNotOpen", <<>>)
  ELSE LET sorted_data == Unwrap(op.sorted_data)
           total_rows == row_count(sorted_data)
       IN IF op.current_row >= total_rows THEN Res(S, "None", "", <<>>)
          ELSE LET end_row == Min(op.current_row + op.batch_size, total_rows)
                   batch_columns ==
                     [c \in 1..column_count(sorted_data) |->
                        NewColumn(sorted_data[c].dt,
                                  ColSlice(sorted_data[c], op.current_row, end_row))]
               IN Res(SetOp(S, i, [op EXCEPT !.current_row = end_row]),
                      "Some", "", batch_columns)


\* ---------------------------------------------------------------- GroupBy
\* Value's Display form: numbers print their value, strings their text.
ValueToString(v) == IF v.t = "String" THEN <<"s", v.v>> ELSE <<"n", v.v>>

\* Two GroupKeys fall into one HashMap entry when they hash alike (type tag
\* and value) and compare equal (by string form).
GroupKeyEq(ka, kb) ==
  /\ Len(ka) = Len(kb)
  /\ \A k \in 1..Len(ka) : ka[k] = kb[k] /\ ValueToString(ka[k]) = ValueToString(kb[k])

\* grouped_data.entry(key).or_default().push(row_values); entries are kept
\* in order of first appearance.
GroupInsert(groups, key, row) ==
  IF \E g \in 1..Len(groups) : GroupKeyEq(groups[g].key, key)
  THEN LET g == CHOOSE g \in 1..Len(groups) : GroupKeyEq(groups[g].key, key) IN
       [groups EXCEPT ![g].rows = Append(@, row)]
  ELSE Append(groups, [key |-> key, rows |-> <<row>>])

RECURSIVE GroupRows(_, _, _)
GroupRows(groups, rows, gcols) ==
  IF Len(rows) = 0 THEN groups
  ELSE GroupRows(GroupInsert(groups, [k \in 1..Len(gcols) |-> Head(rows)[gcols[k] + 1]],
                             Head(rows)),
                 Tail(rows), gcols)

\* format!("agg_{}", i)
AggName(i) == <<"agg_0", "agg_1", "agg_2">>[i + 1]

GroupByOpen(S, i) ==
  LET op == S.ops[i] IN
  IF op.state = "Open" THEN Res(S, "Err", "OperatorAlreadyOpen", <<>>)
  ELSE LET c == Open(S, i - 1) IN
       IF c.k /= "Ok" THEN c
       ELSE LET sch == Schema(c.S, i - 1)
                nm == ColumnNames(c.S, i - 1)
            IN IF ~IsSome(sch) THEN Res(c.S, "Err", "SchemaNotFound", <<>>)
               ELSE IF nm.k /= "Ok" THEN Res(c.S, nm.k, nm.e, <<>>)
               ELSE LET child_column_count == Len(nm.names) IN
                    IF \/ \E k \in 1..Len(op.group_by_columns) :
                            op.group_by_columns[k] >= child_column_count
                       \/ \E k \in 1..Len(op.aggregate_columns) :
                            op.aggregate_columns[k] >= child_column_count
                    THEN Res(c.S, "Err", "InvalidColumnIndex", <<>>)
                    ELSE IF Len(op.aggregate_columns) /= Len(op.aggregates)
                    THEN Res(c.S, "Err", "Custom", <<>>)
                    ELSE LET gnames == [k \in 1..Len(op.group_by_columns) |->
                                          nm.names[op.group_by_columns[k] + 1]]
                             anames == [k \in 1..Len(op.aggregates) |-> AggName(k - 1)]
                             output_column_names == gnames \o anames
                             output_schema ==
                               [n \in Range(output_column_names) |->
                                  IF \E k \in 1..Len(anames) : anames[k] = n
                                  THEN AggDataType(op.aggregates[
                                         CHOOSE k \in 1..Len(anames) : anames[k] = n])
                                  ELSE Unwrap(sch)[n]]
                             op1 == [op EXCEPT !.output_schema = Some(output_schema),
                                               !.output_column_names = Some(output_column_names)]
                             d == Drain(SetOp(c.S, i, op1), i - 1, <<>>, Fuel)
                         IN IF d.k /= "Ok" THEN Res(d.S, d.k, d.e, <<>>)
                            ELSE Res(SetOp(d.S, i,
                                       [op1 EXCEPT !.grouped_data =
                                                     Some(GroupRows(<<>>, FlattenRows(d.batches),
                                                                    op.group_by_columns)),
                                                   !.state = "Open"]),
                                     "Ok", "", <<>>)

RECURSIVE AggOverRows(_, _, _)
\* agg.update(Some(value)) for every row of a group, stopping at an error
AggOverRows(a, rows, col) ==
  IF Len(rows) = 0 THEN [ok |-> TRUE, a |-> a]
  ELSE LET Continue(u) == IF ~u.ok THEN u ELSE AggOverRows(u.a, Tail(rows), col)
       IN Continue(AggUpdate(a, Head(rows)[col + 1]))

RECURSIVE GroupByAggLoop(_, _, _, _, _, _)
\* The nested loop over groups (in iteration order) and aggregates, from
\* group g, aggregate a on: the aggregate instances afterwards and the
\* results, one list per aggregate.
GroupByAggLoop(aggs, acols, groups, g, a, out) ==
  IF g > Len(groups) THEN [ok |-> TRUE, aggs |-> aggs, out |-> out]
  ELSE IF a > Len(aggs) THEN GroupByAggLoop(aggs, acols, groups, g + 1, 1, out)
  ELSE LET Continue(u) ==
             IF ~u.ok THEN [ok |-> FALSE, aggs |-> [aggs EXCEPT ![a] = u.a], out |-> out]
             ELSE GroupByAggLoop([aggs EXCEPT ![a] = u.a], acols, groups, g, a + 1,
                                 [out EXCEPT ![a] = Append(@, AggResult(u.a))])
       IN Continue(AggOverRows(AggReset(aggs[a]), groups[g].rows, acols[a]))

DefaultValue(dt) == [t |-> dt, v |-> 0]

\* Values pushed into an output column of type dt: a missing or mistyped
\* value becomes the type's zero.
TypedColumn(dt, opts) ==
  NewColumn(dt, [k \in 1..Len(opts) |->
                   IF IsSome(opts[k]) /\ Unwrap(opts[k]).t = dt THEN Unwrap(opts[k])
                   ELSE DefaultValue(dt)])

\* The HashMap's iteration order: the groups arranged by the permutation
\* `seed` of 1..MaxRows.
IterationOrder(groups, seed) ==
  LET idx == SelectSeq(seed, LAMBDA x : x <= Len(groups)) IN
  [k \in 1..Len(groups) |-> groups[idx[k]]]

\* (variant: the flag is never set)
MarkResultsReturned_Not(op) == op

\* `self.results_returned = true;`
MarkResultsReturned(op) == [op EXCEPT !.results_returned = TRUE]

GroupByNextBatch(S, i) ==
  LET op == S.ops[i] IN
  IF op.state /= "Open" THEN Res(S, "Err", "OperatorNotOpen", <<>>)
  ELSE IF op.results_returned THEN Res(S, "None", "", <<>>)
  ELSE LET op1 == MarkResultsReturned(op)
           grouped_data == Unwrap(op.grouped_data)
       IN IF Len(grouped_data) = 0 THEN Res(SetOp(S, i, op1), "None", "", <<>>)
          ELSE LET groups == IterationOrder(grouped_data, S.seed)
                   sch == Unwrap(Schema(S, i - 1))
                   nm == ColumnNames(S, i - 1).names
                   gcolumns ==
                     [k \in 1..Len(op.group_by_columns) |->
                        TypedColumn(sch[nm[op.group_by_columns[k] + 1]],
                                    [g \in 1..Len(groups) |-> Some(groups[g].key[k])])]
                   Build(l, S2, final_columns) ==
                     IF ~l.ok THEN Res(S2, "Err", "Custom", <<>>)
                     ELSE IF BatchNewPanics(final_columns) THEN Res(S2, "Panic", "", <<>>)
                     ELSE Res(S2, "Some", "", final_columns)
                   Finished(l) ==
                     Build(l, SetOp(S, i, [op1 EXCEPT !.aggregates = l.aggs]),
                           gcolumns \o [a \in 1..Len(op.aggregates) |->
                                          TypedColumn(AggDataType(op.aggregates[a]), l.out[a])])
               IN Finished(GroupByAggLoop(op.aggregates, op.aggregate_columns, groups, 1, 1,
                                          [a \in 1..Len(op.aggregates) |-> <<>>]))

GroupByClose(S, i) ==
  LET c == CloseWithChild(S, i) IN
  IF c.k /= "Ok" THEN c
  ELSE Res(SetOp(c.S, i, [c.S.ops[i] EXCEPT !.grouped_data = None,
                                            !.results_returned = FALSE]),
           "Ok", "", <<>>)

\* ------------------------------------------------------ dynamic dispatch
\* Operator::open of operator i
DispatchOpen(S, i) ==
  LET S1 == [S EXCEPT !.hist[i].op = @ + 1]
      kind == S.ops[i].kind
      Record(r) ==
        IF r.k = "Ok"
        THEN [r EXCEPT !.S.hist[i] =
                [@ EXCEPT !.rows = <<>>, !.batches = 0, !.pulled = FALSE, !.none = FALSE,
                          !.noneAgain = FALSE, !.erred = FALSE, !.emptySome = FALSE, !.afterNone = FALSE]]
        ELSE r
  IN Record(CASE kind = "TableScan" -> TableScanOpen(S1, i)
              [] kind = "Filter" -> FilterOpen(S1, i)
              [] kind = "Project" -> ProjectOpen(S1, i)
              [] kind = "GroupBy" -> GroupByOpen(S1, i)
              [] kind = "Sort" -> SortOpen(S1, i)
              [] kind = "Limit" -> LimitOpen(S1, i))

\* Operator::next_batch of operator i
DispatchNextBatch(S, i) ==
  LET S1 == [S EXCEPT !.hist[i].nb = @ + 1, !.hist[i].pulled = TRUE]
      kind == S.ops[i].kind
      wasDone == S.ops[i].state = "Open" /\ S.hist[i].none
      AfterNone(r) ==
        IF wasDone /\ r.k /= "None" THEN [r EXCEPT !.S.hist[i].afterNone = TRUE]
        ELSE r
      Record(r) ==
        CASE r.k = "Some" ->
               [r EXCEPT !.S.hist[i].rows = @ \o RowsOf(r.b),
                         !.S.hist[i].batches = Min(@ + 1, MaxRows + 2),
                         !.S.hist[i].emptySome = @ \/ row_count(r.b) = 0]
          [] r.k = "None" -> [r EXCEPT !.S.hist[i].none = TRUE,
                                       !.S.hist[i].noneAgain = @ \/ wasDone]
          [] r.k = "Err" -> [r EXCEPT !.S.hist[i].erred = TRUE]
          [] OTHER -> r
  IN Record(AfterNone(CASE kind = "TableScan" -> TableScanNextBatch(S1, i)
                        [] kind = "Filter" -> FilterNextBatch(S1, i, Fuel)
                        [] kind = "Project" -> ProjectNextBatch(S1, i)
                        [] kind = "GroupBy" -> GroupByNextBatch(S1, i)
                        [] kind = "Sort" -> SortNextBatch(S1, i)
                        [] kind = "Limit" -> LimitNextBatch(S1, i, Fuel)))

\* Operator::close of operator i
DispatchClose(S, i) ==
  LET S1 == [S EXCEPT !.hist[i].cl = @ + 1]
      kind == S.ops[i].kind
  IN CASE kind = "TableScan" -> TableScanClose(S1, i)
       [] kind = "GroupBy" -> GroupByClose(S1, i)
       [] OTHER -> CloseWithChild(S1, i)


Dispatch(S, i, method) ==
  CASE method = "open" -> DispatchOpen(S, i)
    [] method = "next_batch" -> DispatchNextBatch(S, i)
    [] method = "close" -> DispatchClose(S, i)

\* ------------------------------------------------------------ the caller
\* `input` is what a run was given besides the table: nothing for a run that
\* drives a hand-built chain, the predicate and batch for an evaluation, the
\* query for a planned run.
VARIABLES table, ops, hist, last, pc, input

vars == <<table, ops, hist, last, pc, input>>

Root == Len(ops)

\* Tables of 0..MaxRows rows: id = 1..N in order, g drawn from {0, 1}.
Tables ==
  {<<NewColumn("Int64", [k \in 1..Len(g) |-> Int64(k)]),
     NewColumn("Int64", [k \in 1..Len(g) |-> Int64(g[k])])>> : g \in SeqUpTo({0, 1}, MaxRows)}

BatchSizes == 1..MaxBatch

PredG1 == CmpPred(1, "=", Int64(1))
PredNever == CmpPred(0, ">", Int64(100))
PredBadColumn == CmpPred(5, "=", Int64(1))

Filters == {FilterNew(p) : p \in {PredG1, PredNever, PredBadColumn}}

Limits == {LimitNew(l, o) : l \in {None} \cup {Some(n) : n \in 0..MaxLimit}, o \in 0..MaxLimit}

Sorts == {SortWithBatchSize(SortNew(<<1>>, <<"Ascending">>), bs) : bs \in 0..MaxBatch}

GroupBys == {GroupByNew(<<1>>, <<0>>, <<CountAggregateNew("Int64")>>)}

Projects == {ProjectNew(<<1, 0>>)}

MidOps == Filters \cup Sorts \cup GroupBys \cup Projects

TopOps == Limits \cup Filters \cup Projects
          \cup {SortWithBatchSize(SortNew(<<0>>, <<"Descending">>), 1),
                SortWithBatchSize(SortNew(<<1, 0>>, <<"Descending", "Descending">>), 1),
                GroupByNew(<<1>>, <<0, 0>>,
                           <<CountAggregateNew("Int64"), SumAggregateNew("Int64")>>)}

\* Operators put over a MidOps operator in the chains of three
UpperOps == {LimitNew(Some(1), 1), LimitNew(None, 1),
             FilterNew(PredG1), FilterNew(PredNever)} \cup Projects

\* Column selections given to TableScan::with_columns
Selections == {<<0>>, <<1>>, <<1, 0>>, <<0, 0>>, <<>>, <<2>>}

Chains(t) ==
  LET full == {ScanWithBatchSize(TableScanNew(t), bs) : bs \in BatchSizes}
      pruned == {ScanWithBatchSize(TableScanWithColumns(t, ci), bs) :
                   ci \in Selections, bs \in BatchSizes}
  IN {<<s>> : s \in full \cup pruned}
     \cup {<<s, m>> : s \in full, m \in MidOps \cup TopOps}
     \cup {<<s, m, u>> : s \in full, m \in MidOps, u \in UpperOps}

SeedSeq(f) == [k \in 1..MaxRows |-> f[k]]

\* The iteration orders a HashMap may take; they matter to GroupBy only.
Seeds ==
  IF \E i \in 1..Len(ops) : ops[i].kind = "GroupBy"
  THEN {SeedSeq(f) : f \in Permutations(1..MaxRows)}
  ELSE {[k \in 1..MaxRows |-> k]}

Init ==
  /\ table \in Tables
  /\ ops \in Chains(table)
  /\ hist = [i \in 1..Len(ops) |-> HistInit]
  /\ last = [op |-> "new", k |-> "Ok", e |-> "", b |-> <<>>]
  /\ pc = "run"
  /\ input = None

Start(sd) == ResetCalls([table |-> table, ops |-> ops, hist |-> hist, seed |-> sd])

\* The caller's call returned r: a panic or a call that never returns ends
\* the run.
Finish(name, r) ==
  /\ ops' = r.S.ops
  /\ hist' = r.S.hist
  /\ last' = [op |-> name, k |-> r.k, e |-> r.e, b |-> r.b]
  /\ pc' = IF r.k \in {"Panic", "Hang"} THEN "stopped" ELSE "run"
  /\ UNCHANGED <<table, input>>

DoOpen ==
  /\ pc = "run"
  /\ \E sd \in Seeds : Finish("open", Open(Start(sd), Root))

DoNextBatch ==
  /\ pc = "run"
  /\ \E sd \in Seeds : Finish("next_batch", NextBatch(Start(sd), Root))

DoClose ==
  /\ pc = "run"
  /\ Finish("close", Close(Start([k \in 1..MaxRows |-> k]), Root))

Next == DoOpen \/ DoNextBatch \/ DoClose

Spec == Init /\ [][Next]_vars


\* ------------------------------------------ a predicate evaluated alone
MaxValue == 2

\* One comparison, by each operator, of a value of each type over
\* 0..MaxValue with a constant, on a batch of one row and one column; and
\* an And or Or of operands that are true, false or fail on that batch (a
\* comparison on column 1, which the batch does not have), alone or under
\* a nested And or Or
EvalInputs ==
  LET ComparisonOps == {"=", "!=", "<", "<=", ">", ">="}
      Values == {[t |-> ty, v |-> n] : ty \in {"Int64", "Float64", "String"}, n \in 0..MaxValue}
      Leaves == {CmpPred(0, "=", Int64(0)), CmpPred(0, ">", Int64(0)), CmpPred(1, "=", Int64(0))}
      Operands == Leaves \cup {AndPred(l, r) : l \in Leaves, r \in Leaves}
                         \cup {OrPred(l, r) : l \in Leaves, r \in Leaves}
  IN {[pred |-> CmpPred(0, op, c), batch |-> <<NewColumn(a.t, <<a>>)>>] :
        op \in ComparisonOps, a \in Values, c \in Values}
     \cup {[pred |-> p, batch |-> <<NewColumn("Int64", <<Int64(n)>>)>>] :
             p \in {AndPred(l, r) : l \in Operands, r \in Operands}
                   \cup {OrPred(l, r) : l \in Operands, r \in Operands},
             n \in 0..MaxValue}

InitEval ==
  /\ input \in EvalInputs
  /\ table = <<>>
  /\ ops = <<>>
  /\ hist = <<>>
  /\ last = [op |-> "new", k |-> "Ok", e |-> "", b |-> <<>>]
  /\ pc = "run"

DoEval ==
  /\ pc = "run"
  /\ last' = [op |-> "eval", k |-> Eval(input.pred, input.batch, 0), e |-> "", b |-> <<>>]
  /\ pc' = "stopped"
  /\ UNCHANGED <<table, ops, hist, input>>

NextEval == DoEval

SpecEval == InitEval /\ [][NextEval]_vars

\* --------------------------------------- a Project over a scan, alone
ProjectConfigs ==
  LET ProjectIndices == {<<0>>, <<1, 0>>, <<0, 0>>, <<0, 2>>, <<2>>}
      ProjectAliases == {<<>>, <<"a">>, <<"a", "a">>, <<"a", "b">>}
  IN {ProjectNew(ci) : ci \in ProjectIndices}
     \cup {ProjectWithAliases(ProjectNew(ci), al) : ci \in ProjectIndices, al \in ProjectAliases}

ProjectChains(t) ==
  {<<s, p>> : s \in {TableScanNew(t)}
                     \cup {TableScanWithColumns(t, ci) : ci \in {<<0>>, <<0, 0>>, <<1, 0>>}},
              p \in ProjectConfigs}

InitProject ==
  /\ table \in Tables
  /\ ops \in ProjectChains(table)
  /\ hist = [i \in 1..Len(ops) |-> HistInit]
  /\ last = [op |-> "new", k |-> "Ok", e |-> "", b |-> <<>>]
  /\ pc = "run"
  /\ input = None

SpecProject == InitProject /\ [][Next]_vars

\* ------------------------------------------------- an aggregate, alone
MaxUpdates == 3

\* The constructor calls that succeed: function and data type
AggregateNew(fn, dt) ==
  CASE fn = "COUNT" -> CountAggregateNew(dt)
    [] fn = "SUM" -> SumAggregateNew(dt)
    [] fn = "MIN" -> MinAggregateNew(dt)
    [] fn = "MAX" -> MaxAggregateNew(dt)
    [] fn = "AVG" -> AvgAggregateNew(dt)

\* ops holds the instance; hist the values it accepted since construction
\* or the last reset, whether reset was called, and a second instance that
\* was constructed anew at the last reset and is given the same updates.
InitAgg ==
  /\ input \in {[fn |-> fn, dt |-> dt] :
                  fn \in {"COUNT", "MIN", "MAX"}, dt \in {"Int64", "Float64", "String"}}
              \cup {[fn |-> fn, dt |-> dt] : fn \in {"SUM", "AVG"}, dt \in {"Int64", "Float64"}}
  /\ ops = <<AggregateNew(input.fn, input.dt)>>
  /\ hist = <<[supplied |-> <<>>, was_reset |-> FALSE,
               fresh |-> AggregateNew(input.fn, input.dt), fresh_ok |-> TRUE]>>
  /\ table = <<>>
  /\ last = [op |-> "new", k |-> "Ok", e |-> "", b |-> <<>>]
  /\ pc = "run"

\* update() with a missing value or with a value of one of the three types
DoUpdate ==
  /\ pc = "run"
  /\ Len(hist[1].supplied) < MaxUpdates
  /\ \E value \in {None} \cup {Some(Int64(n)) : n \in 1..MaxValue}
                  \cup {Some(Float64(MaxValue)), Some(Str(1))} :
       LET u == AggUpdateOption(ops[1], value)
           f == AggUpdateOption(hist[1].fresh, value)
       IN /\ ops' = <<u.a>>
          /\ hist' = <<[hist[1] EXCEPT !.supplied = IF u.ok THEN Append(@, value) ELSE @,
                                       !.fresh = f.a, !.fresh_ok = f.ok]>>
          /\ last' = [op |-> "update", k |-> IF u.ok THEN "Ok" ELSE "Err",
                      e |-> IF u.ok THEN "" ELSE "TypeError", b |-> <<>>]
  /\ UNCHANGED <<table, input, pc>>

DoReset ==
  /\ pc = "run"
  /\ ops' = <<AggReset(ops[1])>>
  /\ hist' = <<[supplied |-> <<>>, was_reset |-> TRUE,
                fresh |-> AggregateNew(input.fn, input.dt), fresh_ok |-> TRUE]>>
  /\ last' = [op |-> "reset", k |-> "Ok", e |-> "", b |-> <<>>]
  /\ UNCHANGED <<table, input, pc>>

NextAgg == DoUpdate \/ DoReset

SpecAgg == InitAgg /\ [][NextAgg]_vars

\* ---------------------------------------------------------------- Planner
\* parser::SelectItem and the parser::Expression forms of a SELECT item
Wildcard == [k |-> "Wildcard"]
ColumnItem(name) == [k |-> "Column", name |-> name]
AggregateItem(function, col_name) ==
  [k |-> "AggregateFunction", function |-> function, argument |-> col_name]

\* An aggregate over a number literal; over the wildcard the argument is
\* the column name "*".
AggregateLiteralItem(function) == [k |-> "AggregateLiteral", function |-> function]

\* A WHERE clause: BinaryOp(Column(left), operator, NumberLiteral(right))
Comparison(left, operator, right) ==
  [left |-> left, operator |-> operator, right |-> right]

OrderByItem(column, direction) == [column |-> column, direction |-> direction]

SelectStatement(items, from, where, group, order, limit, offset) ==
  [select_items |-> items, from_table |-> from, where_clause |-> where,
   group_by |-> group, order_by |-> order, limit |-> limit, offset |-> offset]

\* The tables registered in the catalog
Catalog == {"t"}

CatalogGetTable(name) == name \in Catalog

\* column_names: the map from a column's name to its index in the table
ColumnIndex(name) ==
  IF \E j \in 1..TableColumnCount : TableColumnNames[j] = name
  THEN Some((CHOOSE j \in 1..TableColumnCount : TableColumnNames[j] = name) - 1)
  ELSE None

\* iter().position(|&x| x == v) over a Vec<usize>
Position(seq, v) ==
  IF \E j \in 1..Len(seq) : seq[j] = v
  THEN Some((CHOOSE j \in 1..Len(seq) : seq[j] = v /\ \A q \in 1..(j - 1) : seq[q] /= v) - 1)
  ELSE None

ProjectionInfoNew ==
  [k |-> "Ok", e |-> "", needs_projection |-> FALSE, final_column_indices |-> <<>>,
   aliases |-> <<>>, has_aggregates |-> FALSE, aggregate_columns |-> <<>>,
   aggregate_functions |-> <<>>]

RECURSIVE AnalyzeItems(_, _, _, _)
\* The loop of analyze_projection over the SELECT items from item k on;
\* first_idx is column_names.values().next(), the index the map yields first.
AnalyzeItems(items, k, info, first_idx) ==
  IF k > Len(items) THEN info
  ELSE LET item == items[k] IN
       CASE item.k = "Wildcard" ->
              AnalyzeItems(items, k + 1,
                [info EXCEPT !.final_column_indices =
                               @ \o [j \in 1..TableColumnCount |-> j - 1],
                             !.aliases =
                               @ \o [j \in 1..TableColumnCount |-> Some(TableColumnNames[j])]],
                first_idx)
         [] item.k = "Column" ->
              IF IsSome(ColumnIndex(item.name))
              THEN AnalyzeItems(items, k + 1,
                     [info EXCEPT !.final_column_indices =
                                    Append(@, Unwrap(ColumnIndex(item.name))),
                                  !.aliases = Append(@, Some(item.name))],
                     first_idx)
              ELSE [info EXCEPT !.k = "Err", !.e = "ColumnNotFound"]
         [] item.k = "AggregateFunction" /\ item.argument = "*" ->
              IF TableColumnCount = 0 THEN [info EXCEPT !.k = "Err", !.e = "Custom"]
              ELSE AnalyzeItems(items, k + 1,
                     [info EXCEPT !.has_aggregates = TRUE,
                                  !.final_column_indices = Append(@, first_idx),
                                  !.aggregate_columns = Append(@, first_idx),
                                  !.aggregate_functions = Append(@, item.function),
                                  !.aliases = Append(@, Some(item.function \o "(*)"))],
                     first_idx)
         [] item.k = "AggregateFunction" /\ item.argument /= "*" ->
              IF IsSome(ColumnIndex(item.argument))
              THEN AnalyzeItems(items, k + 1,
                     [info EXCEPT !.has_aggregates = TRUE,
                                  !.final_column_indices =
                                    Append(@, Unwrap(ColumnIndex(item.argument))),
                                  !.aggregate_columns =
                                    Append(@, Unwrap(ColumnIndex(item.argument))),
                                  !.aggregate_functions = Append(@, item.function),
                                  !.aliases =
                                    Append(@, Some(item.function \o "_" \o item.argument))],
                     first_idx)
              ELSE [info EXCEPT !.k = "Err", !.e = "ColumnNotFound"]
         [] item.k = "AggregateLiteral" ->
              IF TableColumnCount = 0 THEN [info EXCEPT !.k = "Err", !.e = "Custom"]
              ELSE AnalyzeItems(items, k + 1,
                     [info EXCEPT !.has_aggregates = TRUE,
                                  !.final_column_indices = Append(@, first_idx),
                                  !.aggregate_columns = Append(@, first_idx),
                                  !.aggregate_functions = Append(@, item.function),
                                  !.aliases = Append(@, Some(item.function))],
                     first_idx)

RECURSIVE Deduplicate(_, _, _, _)
\* The loop removing repeated indices: an index used by an aggregate is
\* always kept, another index only the first time it is seen.
Deduplicate(info, k, unique_indices, unique_aliases) ==
  IF k > Len(info.final_column_indices)
  THEN [info EXCEPT !.final_column_indices = unique_indices, !.aliases = unique_aliases]
  ELSE LET idx == info.final_column_indices[k]
           is_aggregate == idx \in Range(info.aggregate_columns)
       IN IF is_aggregate \/ idx \notin Range(unique_indices)
          THEN Deduplicate(info, k + 1, Append(unique_indices, idx),
                           Append(unique_aliases, info.aliases[k]))
          ELSE Deduplicate(info, k + 1, unique_indices, unique_aliases)

NeedsProjection(unique_indices, unique_aliases) ==
  IF Len(unique_indices) /= TableColumnCount THEN TRUE
  ELSE LET indices_in_order == \A i \in 1..Len(unique_indices) : unique_indices[i] = i - 1
           has_aliases == \E i \in 1..Len(unique_aliases) : IsSome(unique_aliases[i])
       IN ~indices_in_order \/ has_aliases

AnalyzeProjection(stmt, first_idx) ==
  LET a == AnalyzeItems(stmt.select_items, 1, ProjectionInfoNew, first_idx) IN
  IF a.k /= "Ok" THEN a
  ELSE LET d == Deduplicate(a, 1, <<>>, <<>>) IN
       [d EXCEPT !.needs_projection = NeedsProjection(d.final_column_indices, d.aliases)]

\* into_iter().flatten() over a Vec<Option<String>>
FlattenAliases(aliases) ==
  LET some == SelectSeq(aliases, LAMBDA a : IsSome(a))
  IN [k \in 1..Len(some) |-> Unwrap(some[k])]

\* (variant: the index in the table is returned)
GetColumnIndex_Original(name, column_indices) ==
  IF ~IsSome(ColumnIndex(name)) THEN [k |-> "Err", e |-> "ColumnNotFound", idx |-> 0]
  ELSE [k |-> "Ok", e |-> "", idx |-> Unwrap(ColumnIndex(name))]

\* get_column_index for a column expression: its position in the pruned
\* layout, ColumnNotFound for an unknown name, Custom for a pruned column.
GetColumnIndex(name, column_indices) ==
  IF ~IsSome(ColumnIndex(name)) THEN [k |-> "Err", e |-> "ColumnNotFound", idx |-> 0]
  ELSE LET pos == Position(column_indices, Unwrap(ColumnIndex(name))) IN
       IF IsSome(pos) THEN [k |-> "Ok", e |-> "", idx |-> Unwrap(pos)]
       ELSE [k |-> "Err", e |-> "Custom", idx |-> 0]

CreateAggregateFunction(name, data_type) ==
  CASE name = "COUNT" -> [k |-> "Ok", e |-> "", a |-> CountAggregateNew(data_type)]
    [] name = "SUM" ->
         IF data_type = "String" THEN [k |-> "Err", e |-> "Custom", a |-> None]
         ELSE [k |-> "Ok", e |-> "", a |-> SumAggregateNew(data_type)]
    [] name = "AVG" ->
         IF data_type = "String" THEN [k |-> "Err", e |-> "Custom", a |-> None]
         ELSE [k |-> "Ok", e |-> "", a |-> AvgAggregateNew(data_type)]
    [] name = "MIN" -> [k |-> "Ok", e |-> "", a |-> MinAggregateNew(data_type)]
    [] name = "MAX" -> [k |-> "Ok", e |-> "", a |-> MaxAggregateNew(data_type)]
    [] OTHER -> [k |-> "Err", e |-> "InvalidAggregateFunction", a |-> None]

\* The (column, direction) lists of the Sort of a query without GROUP BY and
\* aggregates: each ORDER BY column's position in the pruned layout.
SortKeys(order_by_items, column_indices) ==
  LET idx(item) ==
        IF ~IsSome(ColumnIndex(item.column)) THEN None
        ELSE LET original_idx == Unwrap(ColumnIndex(item.column))
                 pruned_idx == Position(column_indices, original_idx)
             IN IF IsSome(pruned_idx) THEN pruned_idx
                ELSE IF Len(column_indices) = 0 THEN Some(original_idx)
                ELSE None
  IN IF \E k \in 1..Len(order_by_items) : ~IsSome(idx(order_by_items[k]))
     THEN [k |-> "Err", e |-> "ColumnNotFound", cols |-> <<>>, dirs |-> <<>>]
     ELSE [k |-> "Ok", e |-> "",
           cols |-> [k \in 1..Len(order_by_items) |-> Unwrap(idx(order_by_items[k]))],
           dirs |-> [k \in 1..Len(order_by_items) |-> order_by_items[k].direction]]

PlanOk(chain) == [k |-> "Ok", e |-> "", ops |-> chain]
PlanErr(e) == [k |-> "Err", e |-> e, ops |-> <<>>]

\* The part of plan_select for a query with GROUP BY or aggregates: GroupBy
\* over plan, under a renaming Project; it returns this plan as the result.
PlanGroupBy(stmt, info, column_indices, plan) ==
  LET names == IF IsSome(stmt.group_by)
               THEN SelectSeq(Unwrap(stmt.group_by), LAMBDA n : IsSome(ColumnIndex(n)))
               ELSE <<>>
      group_by_columns ==
        [k \in 1..Len(names) |->
           Unwrap(Position(column_indices, Unwrap(ColumnIndex(names[k]))))]
      aggregate_columns ==
        [k \in 1..Len(info.aggregate_columns) |->
           Unwrap(Position(column_indices, info.aggregate_columns[k]))]
      created ==
        [k \in 1..Len(info.aggregate_columns) |->
           CreateAggregateFunction(info.aggregate_functions[k],
             TableGetColumnType(TableColumnNames[info.aggregate_columns[k] + 1]))]
      aliases == FlattenAliases(info.aliases)
      groupby_count == Len(group_by_columns)
      agg_count == Len(aggregate_columns)
  IN IF \E k \in 1..Len(created) : created[k].k /= "Ok"
     THEN PlanErr(created[CHOOSE k \in 1..Len(created) :
                            /\ created[k].k /= "Ok"
                            /\ \A q \in 1..(k - 1) : created[q].k = "Ok"].e)
     ELSE LET groupby_plan ==
                Append(plan, GroupByNew(group_by_columns, aggregate_columns,
                                        [k \in 1..Len(created) |-> created[k].a]))
          IN IF Len(aliases) = 0 THEN PlanOk(groupby_plan)
             ELSE PlanOk(Append(groupby_plan,
                    ProjectWithAliases(
                      ProjectNew([k \in 1..(groupby_count + agg_count) |-> k - 1]),
                      aliases)))

\* The part of plan_select for a query without GROUP BY and aggregates:
\* Project, Sort and Limit over plan.
PlanProjectSortLimit(stmt, info, column_indices, plan) ==
  LET projected_columns ==
        [k \in 1..Len(info.final_column_indices) |->
           Position(column_indices, info.final_column_indices[k])]
      aliases == FlattenAliases(info.aliases)
      project == IF Len(aliases) = 0
                 THEN ProjectNew([k \in 1..Len(projected_columns) |->
                                    Unwrap(projected_columns[k])])
                 ELSE ProjectWithAliases(
                        ProjectNew([k \in 1..Len(projected_columns) |->
                                      Unwrap(projected_columns[k])]),
                        aliases)
      keys == IF IsSome(stmt.order_by) THEN SortKeys(Unwrap(stmt.order_by), column_indices)
              ELSE [k |-> "Ok", e |-> "", cols |-> <<>>, dirs |-> <<>>]
      plan1 == IF info.needs_projection THEN Append(plan, project) ELSE plan
      plan2 == IF IsSome(stmt.order_by) THEN Append(plan1, SortNew(keys.cols, keys.dirs))
               ELSE plan1
      plan3 == IF IsSome(stmt.limit) \/ IsSome(stmt.offset)
               THEN Append(plan2, LimitNew(stmt.limit,
                                           IF IsSome(stmt.offset) THEN Unwrap(stmt.offset)
                                           ELSE 0))
               ELSE plan2
  IN IF info.needs_projection /\ \E k \in 1..Len(projected_columns) :
                                    ~IsSome(projected_columns[k])
     THEN PlanErr("Custom")
     ELSE IF keys.k /= "Ok" THEN PlanErr(keys.e)
     ELSE PlanOk(plan3)

\* Planner::plan_select on table t: "Ok" with the operators, the scan
\* first, or the PlannerError.
PlanSelect(t, stmt, first_idx) ==
  IF ~CatalogGetTable(stmt.from_table) THEN PlanErr("TableNotFound")
  ELSE LET info == AnalyzeProjection(stmt, first_idx) IN
       IF info.k /= "Ok" THEN PlanErr(info.e)
       ELSE IF IsSome(stmt.where_clause)
               /\ ~IsSome(ColumnIndex(Unwrap(stmt.where_clause).left))
       THEN PlanErr("ColumnNotFound")
       ELSE LET where_columns ==
                  IF IsSome(stmt.where_clause)
                  THEN {Unwrap(ColumnIndex(Unwrap(stmt.where_clause).left))}
                  ELSE {}
                group_columns ==
                  IF IsSome(stmt.group_by)
                  THEN {Unwrap(ColumnIndex(n)) :
                          n \in {m \in Range(Unwrap(stmt.group_by)) : IsSome(ColumnIndex(m))}}
                  ELSE {}
                required_columns ==
                  Range(info.final_column_indices) \cup where_columns \cup group_columns
                column_indices ==
                  SelectSeq([j \in 1..TableColumnCount |-> j - 1],
                            LAMBDA x : x \in required_columns)
                scan == IF Len(column_indices) = 0 \/ Len(column_indices) = TableColumnCount
                        THEN TableScanNew(t)
                        ELSE TableScanWithColumns(t, column_indices)
                left_col == GetColumnIndex(Unwrap(stmt.where_clause).left, column_indices)
                plan == IF IsSome(stmt.where_clause)
                        THEN <<scan, FilterNew(CmpPred(left_col.idx,
                                                       Unwrap(stmt.where_clause).operator,
                                                       Int64(Unwrap(stmt.where_clause).right)))>>
                        ELSE <<scan>>
                needs_groupby ==
                  \/ IsSome(stmt.group_by) /\ Len(Unwrap(stmt.group_by)) > 0
                  \/ info.has_aggregates
            IN IF IsSome(stmt.where_clause) /\ left_col.k /= "Ok" THEN PlanErr(left_col.e)
               ELSE IF needs_groupby THEN PlanGroupBy(stmt, info, column_indices, plan)
               ELSE PlanProjectSortLimit(stmt, info, column_indices, plan)

\* ------------------------------------------------- the planned queries
\* The queries planned: without aggregates, then with aggregates or GROUP
\* BY, on the registered table, and one on a table that is not registered.
Queries ==
  LET PlainSelects ==
        {<<Wildcard>>, <<ColumnItem("id")>>, <<ColumnItem("g")>>,
         <<ColumnItem("id"), ColumnItem("g")>>, <<ColumnItem("g"), ColumnItem("id")>>,
         <<ColumnItem("x")>>}
      GroupedSelects ==
        {<<AggregateItem("COUNT", "id")>>, <<ColumnItem("g"), AggregateItem("COUNT", "id")>>,
         <<AggregateItem("SUM", "id"), ColumnItem("g")>>, <<ColumnItem("g")>>,
         <<AggregateItem("SUM", "x")>>}
      Wheres == {None, Some(Comparison("g", "=", 1)), Some(Comparison("id", ">", 1)),
                 Some(Comparison("x", "=", 1))}
      OrderBys ==
        {None, Some(<<OrderByItem("id", "Ascending")>>),
         Some(<<OrderByItem("g", "Descending")>>),
         Some(<<OrderByItem("g", "Ascending"), OrderByItem("id", "Descending")>>),
         Some(<<OrderByItem("x", "Ascending")>>)}
      LimitOffsets == {<<None, None>>, <<Some(1), None>>, <<None, Some(1)>>}
  IN {SelectStatement(items, "t", w, None, o, lo[1], lo[2]) :
        items \in PlainSelects, w \in Wheres, o \in OrderBys, lo \in LimitOffsets}
     \cup {SelectStatement(items, "t", w, gb, o, lo[1], lo[2]) :
             items \in GroupedSelects, w \in {None, Some(Comparison("g", "=", 1))},
             gb \in {None, Some(<<"g">>), Some(<<"x">>)},
             o \in {None, Some(<<OrderByItem("g", "Descending")>>),
                    Some(<<OrderByItem("x", "Ascending")>>)},
             lo \in {<<None, None>>, <<Some(1), None>>}}
     \cup {SelectStatement(items, "t", None, gb, None, None, None) :
             items \in {<<AggregateItem("COUNT", "*")>>, <<AggregateLiteralItem("SUM")>>,
                        <<ColumnItem("g"), AggregateItem("COUNT", "*")>>},
             gb \in {None, Some(<<"g">>)}}
     \cup {SelectStatement(<<Wildcard>>, "missing", None, None, None, None, None)}

\* Tables of MaxRows rows whose first and last row have g = 1
PlanTables ==
  {t \in Tables : /\ TableRowCount(t) = MaxRows
                  /\ t[2].data[1] = Int64(1)
                  /\ t[2].data[MaxRows] = Int64(1)}

InitPlan ==
  /\ input \in Queries
  /\ table \in PlanTables
  /\ ops = <<>>
  /\ hist = <<>>
  /\ last = [op |-> "new", k |-> "Ok", e |-> "", b |-> <<>>]
  /\ pc = "plan"

\* planner.plan(&query): the operators of the plan, none of them opened,
\* or the error, after which nothing is run. The column that the map of
\* column names yields first is any column of the table.
DoPlan ==
  /\ pc = "plan"
  /\ \E first_idx \in 0..(TableColumnCount - 1) :
     LET r == PlanSelect(table, input, first_idx) IN
       /\ ops' = r.ops
       /\ hist' = [i \in 1..Len(r.ops) |-> HistInit]
       /\ last' = [op |-> "plan", k |-> r.k, e |-> r.e, b |-> <<>>]
       /\ pc' = IF r.k = "Ok" THEN "run" ELSE "stopped"
  /\ UNCHANGED <<table, input>>

NextPlan == DoPlan \/ DoOpen \/ DoNextBatch \/ DoClose

SpecPlan == InitPlan /\ [][NextPlan]_vars


\* ============================================================ properties
IdentitySeed == [k \in 1..MaxRows |-> k]

Cur == [table |-> table, ops |-> ops, hist |-> hist, seed |-> IdentitySeed]

\* What operator i would still yield if it were pulled until None
RestOf(i) == Drain(Cur, i, <<>>, Fuel)

\* All rows operator i yields in its current open session
TotalRows(i) == hist[i].rows \o FlattenRows(RestOf(i).batches)

\* Rows [offset, offset + limit) of a row sequence
LimitExpectedRows(rows, limit, offset) ==
  LET n == Len(rows)
      cnt == IF n - offset <= 0 THEN 0 ELSE Min(limit, n - offset)
  IN SubSeq(rows, offset + 1, offset + cnt)

LimitDone ==
  /\ Len(ops) >= 2
  /\ ops[Root].kind = "Limit"
  /\ ops[Root].state = "Open"
  /\ hist[Root].none
  /\ ~hist[Root - 1].erred
  /\ RestOf(Root - 1).k = "Ok"

\* C1: once a Limit with limit L and offset O has returned None, the rows
\* it returned are max(0, min(L, N - O)) in number and are the rows at
\* positions [O, O + L) of the N rows its child yields, in the child's order,
\* however the child cuts them into batches (an absent limit is unbounded).
C1_LimitOffsetRows ==
  LimitDone =>
    /\ hist[Root].rows =
         LimitExpectedRows(TotalRows(Root - 1), ops[Root].limit, ops[Root].offset)
    /\ Len(hist[Root].rows) =
         (LET d == Len(TotalRows(Root - 1)) - ops[Root].offset
          IN IF d <= 0 THEN 0 ELSE Min(ops[Root].limit, d))

\* A Limit 1 Offset 1 over a scan of three rows in batches of two has
\* skipped inside the first batch and has cut the rest to one row.
C1_Witness ==
  /\ LimitDone
  /\ Len(ops) = 2
  /\ ops[1].batch_size = 2
  /\ ops[Root].limit = 1
  /\ ops[Root].offset = 1
  /\ Len(TotalRows(1)) = 3
  /\ hist[Root].rows = <<TotalRows(1)[2]>>

\* C2: when the rows a Limit has returned have reached its limit, a further
\* next_batch returns None and makes no next_batch call on the child; a
\* Limit with limit 0 never pulls its child.
C2_LimitShortCircuit ==
  [][(Len(ops) >= 2 /\ ops[Root].kind = "Limit") =>
       /\ (/\ ops[Root].state = "Open"
           /\ ops[Root].rows_returned >= ops[Root].limit
           /\ last'.op = "next_batch")
          => (last'.k = "None" /\ hist'[Root - 1].nb = 0)
       /\ ops[Root].limit = 0 => ~hist'[Root - 1].pulled]_vars

\* A Limit 1 has stopped while its child still holds rows.
C2_Witness ==
  /\ Len(ops) >= 2
  /\ ops[Root].kind = "Limit"
  /\ ops[Root].state = "Open"
  /\ ops[Root].limit = 1
  /\ ops[Root].rows_returned = 1
  /\ last.op = "next_batch"
  /\ last.k = "None"
  /\ ~hist[Root - 1].none
  /\ RestOf(Root - 1).k = "Ok"
  /\ Len(FlattenRows(RestOf(Root - 1).batches)) > 0

\* C3: an operator that has been closed is never brought back to Open.
C3_NoReopen ==
  [][\A i \in 1..Len(ops) : ops[i].state = "Closed" => ops'[i].state /= "Open"]_vars

\* C4: next_batch on an operator that is not Open returns the not-open
\* error and no batch, pulls nothing from the child and leaves every
\* operator field as it was.
C4_NextBatchNotOpen ==
  [][(ops[Root].state /= "Open" /\ last'.op = "next_batch") =>
       /\ last'.k = "Err"
       /\ last'.e = "OperatorNotOpen"
       /\ last'.b = <<>>
       /\ ops' = ops
       /\ \A i \in 1..(Root - 1) : hist'[i].nb = 0]_vars

\* A closed Project over a child left unpulled has refused next_batch.
C4_Witness ==
  /\ Len(ops) >= 2
  /\ ops[Root].kind = "Project"
  /\ ops[Root].state = "Closed"
  /\ last.op = "next_batch"
  /\ last.e = "OperatorNotOpen"

\* C5: open on an operator that is Open returns the already-open error,
\* leaves every operator field as it was and does not call the child's open.
C5_DoubleOpen ==
  [][(ops[Root].state = "Open" /\ last'.op = "open") =>
       /\ last'.k = "Err"
       /\ last'.e = "OperatorAlreadyOpen"
       /\ ops' = ops
       /\ \A i \in 1..(Root - 1) : hist'[i].op = 0]_vars

\* An open Limit that has returned rows has refused a second open.
C5_Witness ==
  /\ Len(ops) >= 2
  /\ ops[Root].kind = "Limit"
  /\ ops[Root].state = "Open"
  /\ ops[Root].rows_returned > 0
  /\ last.op = "open"
  /\ last.e = "OperatorAlreadyOpen"

\* C6: no operator of a chain, once it has returned None while Open, returns
\* anything but None to a later next_batch before it is closed.
C6_ExhaustionIsFinal ==
  \A i \in 1..Len(ops) : ~hist[i].afterNone

\* A Filter over a scan has returned rows, then None, then None again.
C6_Witness ==
  /\ Len(ops) = 2
  /\ ops[Root].kind = "Filter"
  /\ ops[Root].state = "Open"
  /\ hist[Root].batches > 0
  /\ hist[Root].none
  /\ hist[Root].noneAgain
  /\ last.op = "next_batch"
  /\ last.k = "None"

\* C7: close returns success from every state, and after it no operator of
\* the chain is Open.
C7_CloseClosesAll ==
  last.op = "close" =>
    /\ last.k = "Ok"
    /\ \A i \in 1..Len(ops) : ops[i].state /= "Open"

\* A chain of three operators that had been opened and pulled is closed.
C7_Witness ==
  /\ Len(ops) = 3
  /\ last.op = "close"
  /\ hist[Root].batches > 0
  /\ \A i \in 1..Len(ops) : hist[i].cl = 1 /\ ops[i].state = "Closed"

\* C8: a Filter never returns a batch (not None) that holds zero rows.
C8_FilterNeverEmptyBatch ==
  \A i \in 1..Len(ops) : ops[i].kind = "Filter" => ~hist[i].emptySome

\* The predicate applied to one row, taken as a batch of that row alone
EvalRow(pred, row) ==
  Eval(pred, [c \in 1..Len(row) |-> NewColumn(row[c].t, <<row[c]>>)], 0)

\* C9: the rows a Filter has returned are the rows its child has returned
\* on which the predicate is true, each once, in the child's order and with
\* all their columns; so are they when the child is exhausted.
C9_FilterRows ==
  \A i \in 2..Len(ops) :
    (ops[i].kind = "Filter" /\ ~hist[i].erred) =>
      /\ hist[i].rows =
           SelectSeq(hist[i - 1].rows, LAMBDA r : EvalRow(ops[i].predicate, r) = "T")
      /\ hist[i].none => hist[i - 1].none

\* A Filter on g = 1 has read a scan of several batches to the end, has kept
\* some rows and has dropped others.
C9_Witness ==
  /\ Len(ops) = 2
  /\ ops[Root].kind = "Filter"
  /\ ops[Root].predicate = PredG1
  /\ hist[Root].none
  /\ hist[1].batches >= 2
  /\ Len(hist[Root].rows) >= 1
  /\ Len(hist[Root].rows) < Len(hist[1].rows)
  /\ hist[Root].rows[1] /= hist[1].rows[1]

\* Rows [a, b) of the table under a column selection (0-based, b excluded)
TableRows(ci, a, b) ==
  [r \in 1..(b - a) |-> [k \in 1..Len(ci) |-> table[ci[k] + 1].data[a + r]]]

CeilDiv(n, b) == (n + b - 1) \div b

\* C10: an open TableScan over N rows with batch size B has returned, after
\* k batches, the rows [0, min(k * B, N)) of the selected columns in the
\* order the indices were given; it has returned exactly ceil(N / B) batches
\* when it returns None, and next_batch on it returns a batch or None.
C10_TableScanBatches ==
  LET scan == ops[1]
      n == TableRowCount(table)
  IN scan.state = "Open" =>
       /\ hist[1].batches <= CeilDiv(n, scan.batch_size)
       /\ hist[1].rows =
            TableRows(scan.column_indices, 0, Min(hist[1].batches * scan.batch_size, n))
       /\ hist[1].none => hist[1].batches = CeilDiv(n, scan.batch_size)
       /\ scan.current_row = Min(hist[1].batches * scan.batch_size, n)
       /\ (Len(ops) = 1 /\ last.op = "next_batch") => last.k \in {"Some", "None"}


\* C11: a comparison of an Int64 value with a Float64 constant, or of a
\* Float64 value with an Int64 constant, yields the numeric comparison of the
\* two numbers, for each of the six operators.
C11_CrossTypeNumeric ==
  LET a == input.batch[1].data[1]
      c == input.pred.value
  IN (/\ last.op = "eval"
      /\ input.pred.k = "cmp"
      /\ <<a.t, c.t>> \in {<<"Int64", "Float64">>, <<"Float64", "Int64">>})
     => last.k = (IF CompareNum(input.pred.op, a.v, c.v) THEN "T" ELSE "F")


RECURSIVE SumOf(_, _)
\* The sum of column col (0-based) over a sequence of rows
SumOf(rows, col) ==
  IF Len(rows) = 0 THEN 0 ELSE Head(rows)[col + 1].v + SumOf(Tail(rows), col)

\* An aggregate computed from scratch over the rows of one group
NaiveAggregate(a, rows, col) ==
  IF a.fn = "COUNT" THEN Int64(Len(rows)) ELSE [t |-> a.dt, v |-> SumOf(rows, col)]

\* Operator i is a GroupBy that has returned its batch
GroupByEmitted(i) ==
  /\ i >= 2
  /\ ops[i].kind = "GroupBy"
  /\ ops[i].state = "Open"
  /\ hist[i].batches > 0

\* C12: the rows a GroupBy has returned are one per distinct group key of the
\* rows its child yielded, and every aggregate value of a row is the
\* aggregate computed from scratch over the child rows of that key alone.
C12_GroupByPerGroup ==
  \A i \in 1..Len(ops) :
    GroupByEmitted(i) =>
      LET op == ops[i]
          input_rows == hist[i - 1].rows
          out == hist[i].rows
          ng == Len(op.group_by_columns)
          KeyOf(r) == [k \in 1..ng |-> r[op.group_by_columns[k] + 1]]
          OutKey(o) == [k \in 1..ng |-> o[k]]
          keys == {KeyOf(input_rows[r]) : r \in 1..Len(input_rows)}
      IN /\ Len(out) = Cardinality(keys)
         /\ {OutKey(out[r]) : r \in 1..Len(out)} = keys
         /\ \A r \in 1..Len(out) : \A a \in 1..Len(op.aggregates) :
              out[r][ng + a] =
                NaiveAggregate(op.aggregates[a],
                               SelectSeq(input_rows, LAMBDA x : KeyOf(x) = OutKey(out[r])),
                               op.aggregate_columns[a])

\* A GroupBy with COUNT and SUM over rows with g = 0, 1, 0 has returned the
\* group of g = 1 first and the group of g = 0, of two rows, second.
C12_Witness ==
  /\ Len(ops) = 2
  /\ GroupByEmitted(2)
  /\ Len(ops[2].aggregates) = 2
  /\ Len(hist[1].rows) = 3
  /\ hist[2].rows = <<<<Int64(1), Int64(1), Int64(2)>>, <<Int64(0), Int64(2), Int64(4)>>>>


\* The distinct group keys of the rows operator i (a GroupBy) read
GroupKeys(i) ==
  {[k \in 1..Len(ops[i].group_by_columns) |->
      hist[i - 1].rows[r][ops[i].group_by_columns[k] + 1]] :
     r \in 1..Len(hist[i - 1].rows)}

RowBefore(a, b, cols, dirs) ==
  \E k \in 1..Len(cols) :
    /\ \A q \in 1..(k - 1) : a[cols[q] + 1].v = b[cols[q] + 1].v
    /\ IF dirs[k] = "Descending" THEN a[cols[k] + 1].v > b[cols[k] + 1].v
       ELSE a[cols[k] + 1].v < b[cols[k] + 1].v

\* Rows a and b are equal on every sort key
RowTie(a, b, cols) ==
  \A k \in 1..Len(cols) : a[cols[k] + 1].v = b[cols[k] + 1].v

\* pi arranges the rows in key order, rows that tie keeping their order
SortedStable(rows, pi, cols, dirs) ==
  \A k \in 1..(Len(rows) - 1) :
    \/ RowBefore(rows[pi[k]], rows[pi[k + 1]], cols, dirs)
    \/ RowTie(rows[pi[k]], rows[pi[k + 1]], cols) /\ pi[k] < pi[k + 1]

\* C14: the rows a Sort has returned are the first rows of a permutation of
\* its child's rows in which adjacent rows are in order under the key list
\* (first key first, ties going to the next key) and rows equal on all keys
\* keep the child's order; when Sort has returned None they are all of it.
C14_SortOrder ==
  \A i \in 2..Len(ops) :
    (ops[i].kind = "Sort" /\ ops[i].state = "Open" /\ ~hist[i].erred) =>
      LET input_rows == hist[i - 1].rows
          out == hist[i].rows
          n == Len(input_rows)
      IN /\ Len(out) <= n
         /\ hist[i].none => Len(out) = n
         /\ \E pi \in Permutations(1..n) :
              /\ SortedStable(input_rows, pi, ops[i].sort_columns, ops[i].sort_directions)
              /\ out = [k \in 1..Len(out) |-> input_rows[pi[k]]]

\* A Sort on g ascending over rows with g = 1, 0, 1 has returned the row of
\* g = 0 and then the two rows of g = 1 in the child's order, and None.
C14_Witness ==
  /\ Len(ops) = 2
  /\ ops[2].kind = "Sort"
  /\ ops[2].sort_columns = <<1>>
  /\ ops[2].state = "Open"
  /\ hist[2].none
  /\ hist[2].rows = <<<<Int64(2), Int64(0)>>, <<Int64(1), Int64(1)>>, <<Int64(3), Int64(1)>>>>


\* The name of output column k of a Project over a child with these names
OutputName(op, child_names, k) ==
  IF IsSome(op.aliases) THEN Unwrap(op.aliases)[k]
  ELSE child_names[op.column_indices[k] + 1]

IndexOutside(op, child_names) ==
  \E k \in 1..Len(op.column_indices) : op.column_indices[k] >= Len(child_names)

FewerAliases(op) ==
  IsSome(op.aliases) /\ Len(Unwrap(op.aliases)) < Len(op.column_indices)

SameOutputName(op, child_names) ==
  \E j, k \in 1..Len(op.column_indices) :
    /\ j < k
    /\ IsSome(op.aliases) => k <= Len(Unwrap(op.aliases))
    /\ ~IsSome(op.aliases) =>
         (op.column_indices[j] < Len(child_names) /\ op.column_indices[k] < Len(child_names))
    /\ OutputName(op, child_names, j) = OutputName(op, child_names, k)

\* C20: an open() of a Project that is not open, whose child opens, fails
\* and leaves the Project not open when an index is outside the child's
\* column count, when there are fewer aliases than indices, or when two
\* output columns get the same name; the error is invalid-column-index when
\* an index outside the count is the only defect.
C20_ProjectOpenFails ==
  [][(/\ Len(ops) = 2
      /\ ops[2].kind = "Project"
      /\ ops[2].state /= "Open"
      /\ last'.op = "open"
      /\ ops[1].state /= "Open"
      /\ ops'[1].state = "Open"
      /\ ColumnNames([table |-> table, ops |-> ops', hist |-> hist', seed |-> <<>>], 1).k = "Ok")
     => LET names == ColumnNames([table |-> table, ops |-> ops', hist |-> hist', seed |-> <<>>], 1).names
            op == ops[2]
        IN (IndexOutside(op, names) \/ FewerAliases(op) \/ SameOutputName(op, names))
           => /\ last'.k = "Err"
              /\ last'.e \in {"InvalidColumnIndex", "Custom"}
              /\ ops'[2].state /= "Open"
              /\ (~FewerAliases(op) /\ ~SameOutputName(op, names))
                   => last'.e = "InvalidColumnIndex"
              /\ ~IndexOutside(op, names) => last'.e = "Custom"]_vars

\* A Project with the aliases a, a over two columns was opened, failed on
\* the second a and is not open, its child being open.
C20_Witness ==
  /\ Len(ops) = 2
  /\ ops[2].kind = "Project"
  /\ ops[2].column_indices = <<1, 0>>
  /\ ops[2].aliases = Some(<<"a", "a">>)
  /\ last.op = "open"
  /\ last.k = "Err"
  /\ last.e = "Custom"
  /\ ops[2].state = "NotOpen"
  /\ ops[1].state = "Open"


\* The query has a GROUP BY clause or an aggregate in its SELECT list
Grouped(stmt) ==
  \/ IsSome(stmt.group_by) /\ Len(Unwrap(stmt.group_by)) > 0
  \/ \E k \in 1..Len(stmt.select_items) : stmt.select_items[k].k \in {"AggregateFunction", "AggregateLiteral"}

\* plan() has returned a tree for the query
Planned == pc /= "plan" /\ Len(ops) > 0

\* Operator kind occurs in the plan above its GroupBy
AboveGroupBy(kind) ==
  \E i, j \in 1..Len(ops) : i < j /\ ops[i].kind = "GroupBy" /\ ops[j].kind = kind

\* C15: the tree plan() returns for a query with GROUP BY or an aggregate
\* has a Sort above the GroupBy when the query has ORDER BY, and a Limit
\* above the GroupBy when it has LIMIT or OFFSET.
C15_GroupedSortLimit ==
  (Planned /\ Grouped(input)) =>
    /\ IsSome(input.order_by) => AboveGroupBy("Sort")
    /\ (IsSome(input.limit) \/ IsSome(input.offset)) => AboveGroupBy("Limit")


\* The column names the SELECT list asks for, a wildcard standing for all
Selected(stmt) ==
  UNION {IF stmt.select_items[k].k = "Wildcard" THEN Range(TableColumnNames)
         ELSE IF stmt.select_items[k].k = "Column" THEN {stmt.select_items[k].name}
         ELSE {} : k \in 1..Len(stmt.select_items)}

\* The query has no GROUP BY and no aggregate, and an ORDER BY on columns of
\* its SELECT list
OrdersSelected(stmt) ==
  /\ ~Grouped(stmt)
  /\ IsSome(stmt.order_by)
  /\ \A k \in 1..Len(Unwrap(stmt.order_by)) :
       Unwrap(stmt.order_by)[k].column \in Selected(stmt)

\* The column names of the operator beneath operator i
LayoutBeneath(i) == ColumnNames(Cur, i - 1).names

\* C16: in the plan of a query without GROUP BY and aggregates whose ORDER BY
\* columns are in the SELECT list, each index of the Sort designates, in the
\* layout of the operator beneath the Sort, the ORDER BY column, and the
\* rows the Sort returns are in the order of those columns.
C16_SortIndex ==
  (Planned /\ OrdersSelected(input)) =>
    \A i \in 2..Len(ops) :
      ops[i].kind = "Sort" =>
        LET order_by == Unwrap(input.order_by)
            names == LayoutBeneath(i)
            named == [k \in 1..Len(order_by) |->
                        Unwrap(Position(names, order_by[k].column))]
            dirs == [k \in 1..Len(order_by) |-> order_by[k].direction]
            out == hist[i].rows
        IN /\ Len(ops[i].sort_columns) = Len(order_by)
           /\ \A k \in 1..Len(order_by) :
                /\ ops[i].sort_columns[k] < Len(names)
                /\ names[ops[i].sort_columns[k] + 1] = order_by[k].column
           /\ \A r \in 1..(Len(out) - 1) :
                RowBefore(out[r], out[r + 1], named, dirs) \/ RowTie(out[r], out[r + 1], named)


\* The table column at position p of the scan's layout
TableColumnAt(p) == ops[1].column_indices[p + 1]

\* The GROUP BY names and the aggregate arguments that are table columns
GroupByNames(stmt) ==
  IF IsSome(stmt.group_by)
  THEN SelectSeq(Unwrap(stmt.group_by), LAMBDA n : n \in Range(TableColumnNames))
  ELSE <<>>

AggregateArguments(stmt) ==
  LET aggs == SelectSeq(stmt.select_items,
                        LAMBDA it : it.k \in {"AggregateFunction", "AggregateLiteral"})
  IN [k \in 1..Len(aggs) |->
        IF aggs[k].k = "AggregateLiteral" THEN "*" ELSE aggs[k].argument]

\* Every index in Filter, GroupBy and Project (over the scan's layout) is in
\* the layout and designates there the table column the query names
IndicesDesignate ==
  \A i \in 2..Len(ops) :
    /\ ops[i].kind = "Filter" =>
         /\ ops[i].predicate.col < Len(ops[1].column_indices)
         /\ TableColumnNames[TableColumnAt(ops[i].predicate.col) + 1]
              = Unwrap(input.where_clause).left
    /\ ops[i].kind = "GroupBy" =>
         /\ Len(ops[i].group_by_columns) = Len(GroupByNames(input))
         /\ Len(ops[i].aggregate_columns) = Len(AggregateArguments(input))
         /\ \A k \in 1..Len(ops[i].group_by_columns) :
              /\ ops[i].group_by_columns[k] < Len(ops[1].column_indices)
              /\ TableColumnNames[TableColumnAt(ops[i].group_by_columns[k]) + 1]
                   = GroupByNames(input)[k]
         /\ \A k \in 1..Len(ops[i].aggregate_columns) :
              /\ ops[i].aggregate_columns[k] < Len(ops[1].column_indices)
              /\ \/ AggregateArguments(input)[k] = "*"
                 \/ TableColumnNames[TableColumnAt(ops[i].aggregate_columns[k]) + 1]
                      = AggregateArguments(input)[k]
    /\ (ops[i].kind = "Project" /\ ~Grouped(input)) =>
         /\ Len(Unwrap(ops[i].aliases)) = Len(ops[i].column_indices)
         /\ \A k \in 1..Len(ops[i].column_indices) :
              /\ ops[i].column_indices[k] < Len(ops[1].column_indices)
              /\ TableColumnNames[TableColumnAt(ops[i].column_indices[k]) + 1]
                   = Unwrap(ops[i].aliases)[k]

\* The plan with a scan of all columns: every index over the scan's layout
\* replaced by the index of the table column it designates
AllColumnsPlan ==
  [i \in 1..Len(ops) |->
     CASE i = 1 -> TableScanNew(table)
       [] ops[i].kind = "Filter" ->
            [ops[i] EXCEPT !.predicate.col = TableColumnAt(@)]
       [] ops[i].kind = "GroupBy" ->
            [ops[i] EXCEPT
               !.group_by_columns = [k \in 1..Len(@) |-> TableColumnAt(@[k])],
               !.aggregate_columns = [k \in 1..Len(@) |-> TableColumnAt(@[k])]]
       [] ops[i].kind = "Project" /\ ~Grouped(input) ->
            [ops[i] EXCEPT !.column_indices = [k \in 1..Len(@) |-> TableColumnAt(@[k])]]
       [] OTHER -> ops[i]]

\* Opening a plan and pulling it until None: how it ended and the rows
RunPlan(chain) ==
  LET S0 == [table |-> table, ops |-> chain,
             hist |-> [i \in 1..Len(chain) |-> HistInit], seed |-> IdentitySeed]
      o == Open(S0, Len(chain))
      d == Drain(o.S, Len(chain), <<>>, Fuel)
  IN IF o.k /= "Ok" THEN [k |-> o.k, e |-> o.e, rows |-> <<>>]
     ELSE [k |-> d.k, e |-> d.e, rows |-> FlattenRows(d.batches)]

\* C17: in the tree plan() returns, every column index of Filter, GroupBy
\* and Project designates in the scan's pruned layout the table column the
\* query names, and running the tree gives the rows that the same tree gives
\* over a scan of all columns.
C17_PruningPreservesRows ==
  (Planned /\ last.op = "plan") =>
    /\ IndicesDesignate
    /\ RunPlan(ops) = RunPlan(AllColumnsPlan)

\* A plan over a scan pruned to the column g, with a Filter on g, has been
\* opened and pulled to None and has returned rows.
C17_Witness ==
  /\ Planned
  /\ Len(ops) = 3
  /\ ops[1].column_indices = <<1>>
  /\ ops[2].kind = "Filter"
  /\ ops[3].kind = "Project"
  /\ hist[3].none
  /\ Len(hist[3].rows) > 0


\* The column names the query uses in SELECT, WHERE, GROUP BY and ORDER BY
NamedColumns(stmt) ==
  Selected(stmt)
  \cup (Range(AggregateArguments(stmt)) \ {"*"})
  \cup (IF IsSome(stmt.where_clause) THEN {Unwrap(stmt.where_clause).left} ELSE {})
  \cup (IF IsSome(stmt.group_by) THEN Range(Unwrap(stmt.group_by)) ELSE {})
  \cup (IF IsSome(stmt.order_by)
        THEN {Unwrap(stmt.order_by)[k].column : k \in 1..Len(Unwrap(stmt.order_by))}
        ELSE {})

\* C18: plan() fails with table-not-found when the FROM table is not in the
\* catalog, and with column-not-found when a column named in SELECT, WHERE,
\* GROUP BY or ORDER BY is not in the table; no operator exists or is opened.
C18_PlanRejectsUnknownNames ==
  pc /= "plan" =>
    /\ input.from_table \notin Catalog =>
         /\ Len(ops) = 0
         /\ last = [op |-> "plan", k |-> "Err", e |-> "TableNotFound", b |-> <<>>]
    /\ (input.from_table \in Catalog
        /\ \E n \in NamedColumns(input) : n \notin Range(TableColumnNames)) =>
         /\ Len(ops) = 0
         /\ last = [op |-> "plan", k |-> "Err", e |-> "ColumnNotFound", b |-> <<>>]


\* C19: on a tree plan() returned, no open() and no next_batch() panics or
\* fails with an invalid-column-index, alias-count or duplicate-name error;
\* the only errors are those of calls made in the wrong operator state.
C19_PlanRuns ==
  (Planned /\ last.op \in {"open", "next_batch"}) =>
    /\ last.k /= "Panic"
    /\ last.k = "Err" => last.e \in {"OperatorNotOpen", "OperatorAlreadyOpen"}


\* C21: a Filter over a Filter with the same predicate has returned exactly
\* the rows the inner Filter has returned, which are the rows of the inner
\* Filter's child on which the predicate is true, and it is exhausted
\* exactly when the inner Filter is.
C21_FilterIdempotent ==
  \A i \in 3..Len(ops) :
    (/\ ops[i].kind = "Filter"
     /\ ops[i - 1].kind = "Filter"
     /\ ops[i].predicate = ops[i - 1].predicate
     /\ ops[i].state = "Open"
     /\ ~hist[i].erred) =>
      /\ hist[i].rows = hist[i - 1].rows
      /\ hist[i].rows =
           SelectSeq(hist[i - 2].rows, LAMBDA r : EvalRow(ops[i].predicate, r) = "T")
      /\ hist[i].none <=> hist[i - 1].none

\* A Filter on g = 1 over a Filter on g = 1 has been pulled to None and has
\* returned two rows or more, fewer than the scan has.
C21_Witness ==
  /\ Len(ops) = 3
  /\ ops[3].kind = "Filter"
  /\ ops[2].kind = "Filter"
  /\ ops[3].predicate = PredG1
  /\ ops[2].predicate = PredG1
  /\ ops[3].state = "Open"
  /\ hist[3].none
  /\ Len(hist[3].rows) >= 2
  /\ Len(hist[3].rows) < Len(hist[1].rows)


\* The values that are not missing, of a sequence of supplied values
NonMissing(supplied) ==
  LET some == SelectSeq(supplied, LAMBDA o : IsSome(o))
  IN [k \in 1..Len(some) |-> Unwrap(some[k])]

RECURSIVE SumValues(_)
SumValues(values) == IF Len(values) = 0 THEN 0 ELSE Head(values).v + SumValues(Tail(values))

\* C22: AVG's result is None when no value that is not missing was supplied
\* since construction or the last reset, and otherwise the sum of those
\* values divided by their number; missing values count for nothing.
C22_AvgResult ==
  ops[1].fn = "AVG" =>
    LET values == NonMissing(hist[1].supplied) IN
    IF Len(values) = 0 THEN AggResult(ops[1]) = None
    ELSE /\ IsSome(AggResult(ops[1]))
         /\ Unwrap(AggResult(ops[1])).t = "Float64"
         /\ Unwrap(AggResult(ops[1])).v.num * Len(values)
              = SumValues(values) * Unwrap(AggResult(ops[1])).v.den

\* An AVG that was given 1, a missing value and 2 holds the result 3/2.
C22_Witness ==
  /\ ops[1].fn = "AVG"
  /\ hist[1].supplied = <<Some(Int64(1)), None, Some(Int64(2))>>
  /\ AggResult(ops[1]) = Some([t |-> "Float64", v |-> [num |-> 3, den |-> 2]])

\* C23: after reset(), result() and the outcome of every later update are
\* those of an instance constructed anew with the same data type and given
\* the same updates.
C23_ResetIsFresh ==
  hist[1].was_reset =>
    /\ AggResult(ops[1]) = AggResult(hist[1].fresh)
    /\ last.op = "update" => (last.k = "Ok") = hist[1].fresh_ok

\* An aggregate that had accepted values was reset and has accepted values
\* again.
C23_Witness ==
  /\ hist[1].was_reset
  /\ last.op = "update"
  /\ Len(NonMissing(hist[1].supplied)) >= 2
  /\ IsSome(AggResult(ops[1]))


\* What a caller observes of one outcome of plan(): the planning error, or
\* how running the tree ends, its rows and its column names
PlanOutcome(r) ==
  IF r.k /= "Ok" THEN [k |-> "Err", e |-> r.e]
  ELSE LET S0 == [table |-> table, ops |-> r.ops,
                  hist |-> [i \in 1..Len(r.ops) |-> HistInit], seed |-> IdentitySeed]
           o == Open(S0, Len(r.ops))
       IN [k |-> "Ok", run |-> RunPlan(r.ops),
           names |-> IF o.k = "Ok" THEN ColumnNames(o.S, Len(r.ops)) ELSE <<>>]

\* C24: plan() on the same query and the same table has the same outcome,
\* the same planning error or a tree with the same result rows and column
\* names, whichever existing column serves as the stand-in of COUNT(*) and
\* of an aggregate over a literal.
C24_PlanIsPure ==
  (pc /= "plan" /\ last.op = "plan") =>
    \A first_idx \in 0..(TableColumnCount - 1) :
      PlanOutcome(PlanSelect(table, input, first_idx))
        = PlanOutcome(PlanSelect(table, input, 0))


\* C25: an And whose left operand is false is false, and an Or whose left
\* operand is true is true, whatever the right operand is, one that fails on
\* its own included; the right operand decides (its value, or its error)
\* exactly when the left operand of an And is true or of an Or is false; an
\* error of the left operand is the result.
C25_ShortCircuit ==
  (last.op = "eval" /\ input.pred.k \in {"and", "or"}) =>
    LET left == Eval(input.pred.l, input.batch, 0)
        right == Eval(input.pred.r, input.batch, 0)
        decides == IF input.pred.k = "and" THEN "T" ELSE "F"
    IN /\ left = decides => last.k = right
       /\ left /= decides => last.k = left
       /\ (input.pred.k = "and" /\ left = "F") => last.k = "F"
       /\ (input.pred.k = "or" /\ left = "T") => last.k = "T"

\* An And with a false left operand and an Or with a true left operand,
\* each over a right operand that fails alone, has been evaluated.
C25_Witness ==
  /\ last.op = "eval"
  /\ input.pred.k \in {"and", "or"}
  /\ Eval(input.pred.l, input.batch, 0) = (IF input.pred.k = "and" THEN "F" ELSE "T")
  /\ Eval(input.pred.r, input.batch, 0) = "InvalidColumnIndex"
  /\ last.k = (IF input.pred.k = "and" THEN "F" ELSE "T")


\* C26: an open Sort, with any batch size with_batch_size accepts, returns
\* its rows in chunks that are never empty and hold at most batch_size rows,
\* its cursor standing after the rows returned, so that it has returned at
\* most as many chunks as it has rows before it returns None.
C26_SortChunks ==
  \A i \in 2..Len(ops) :
    (ops[i].kind = "Sort" /\ ops[i].state = "Open") =>
      /\ ~hist[i].emptySome
      /\ ops[i].current_row = Len(hist[i].rows)
      /\ hist[i].batches <= TableRowCount(table)
      /\ (i = Root /\ last.op = "next_batch" /\ last.k = "Some") =>
           row_count(last.b) \in 1..ops[i].batch_size


\* C27: a call that opens a GroupBy or a Sort has pulled the child of that
\* operator, at least once and until the child returned None, when it
\* returns; and during a next_batch() call no GroupBy and no Sort calls its
\* child's next_batch().
C27_ConsumeAtOpen ==
  [][\A i \in 2..Len(ops) :
       ops[i].kind \in {"GroupBy", "Sort"} =>
         /\ (last'.op = "open" /\ ops[i].state /= "Open" /\ ops'[i].state = "Open") =>
              /\ hist'[i - 1].nb >= 1
              /\ hist'[i - 1].none
              /\ ops'[i - 1].state = "Open"
         /\ last'.op = "next_batch" =>
              /\ hist'[i - 1].nb = 0
              /\ hist'[i - 1] = [hist[i - 1] EXCEPT !.nb = 0, !.op = 0, !.cl = 0]]_vars

\* A Sort opened over a scan of several batches has returned a chunk: the
\* scan was read to its end by open() and was not called by next_batch().
C27_Witness ==
  /\ Len(ops) = 2
  /\ ops[2].kind = "Sort"
  /\ last.op = "next_batch"
  /\ last.k = "Some"
  /\ hist[1].none
  /\ hist[1].batches >= 2
  /\ hist[1].nb = 0


\* C28: a next_batch() call on a Filter whose child would still yield
\* finitely many batches and then None returns, and during the call the
\* child is pulled at most once more than the number of batches it had left
\* (every level of the Filter's recursion pulls the child once).
C28_FilterPulls ==
  [][(/\ Len(ops) >= 2
      /\ ops[Root].kind = "Filter"
      /\ last'.op = "next_batch"
      /\ RestOf(Root - 1).k = "Ok")
     => /\ last'.k /= "Hang"
        /\ hist'[Root - 1].nb <= Len(RestOf(Root - 1).batches) + 1]_vars

\* A Filter whose predicate no row satisfies has pulled a scan of several
\* batches to its None within one call.
C28_Witness ==
  /\ Len(ops) = 2
  /\ ops[Root].kind = "Filter"
  /\ ops[Root].predicate = PredNever
  /\ last.op = "next_batch"
  /\ last.k = "None"
  /\ hist[1].batches >= 2
  /\ hist[1].nb = hist[1].batches + 1


\* The alias analyze_projection gives the aggregate of a SELECT item
AggregateAlias(item) ==
  IF item.k = "AggregateLiteral" THEN item.function
  ELSE IF item.argument = "*" THEN item.function \o "(*)"
  ELSE item.function \o "_" \o item.argument

\* The names that describe the columns of a grouped result: the group
\* columns by their own names, then the aggregates by the aliases of their
\* SELECT items
GroupedNames(stmt) ==
  LET aggs == SelectSeq(stmt.select_items,
                        LAMBDA it : it.k \in {"AggregateFunction", "AggregateLiteral"})
  IN GroupByNames(stmt) \o [k \in 1..Len(aggs) |-> AggregateAlias(aggs[k])]

\* C29: in the opened tree of a grouped or aggregate query every output
\* column is named after its data: the group columns carry their column
\* names and each aggregate column carries the alias of its own SELECT item,
\* in whatever order the SELECT list names them.
C29_NamesDescribeData ==
  (Planned /\ Grouped(input) /\ ops[Root].state = "Open") =>
    LET names == ColumnNames(Cur, Root) IN
    /\ names.k = "Ok"
    /\ names.names = GroupedNames(input)


\* C30: an open() on a Filter, Project, GroupBy, Sort or Limit that returns
\* an error leaves every operator of the tree in the state it had before the
\* call, so that no operator the call opened is left Open.
C30_FailedOpenRestores ==
  [][(Len(ops) >= 2 /\ last'.op = "open" /\ last'.k = "Err")
     => \A i \in 1..Len(ops) : ops'[i].state = ops[i].state]_vars

====
